---- MODULE Spec2Model ----
(***************************************************************************)
(* A model of fzc, the fuzzy terminal command launcher: the application    *)
(* state machine (src/src/app.rs, AppState), the parameter prompts, the    *)
(* streamed and the inherited execution of a command with its two reader   *)
(* threads and their queue, the session log and the usage store.           *)
(*                                                                         *)
(* A Rust String is a sequence of one-character strings, so that trimming, *)
(* searching and replacing are computed as the code computes them.  Fixed  *)
(* messages are kept as one fragment.  Indices are 0-based as in the code; *)
(* At(s, i) reads the element of index i.                                  *)
(***************************************************************************)
EXTENDS Integers, Sequences, FiniteSets, TLC

VARIABLES
    app,        \* AppState: the fields of the struct, owned by the control thread
    pc,         \* where the control thread is: run_loop, the streaming loop, exited
    last,       \* the UiAction that the last on_key returned (with the key)
    request,    \* the RunRequest being executed
    result,     \* the StreamRunResult (or the spawn error) of the last run
    child,      \* the child process: its state and its exit status
    pipe,       \* per stream: the lines written by the child and not yet read
    wrote,      \* per stream: how many lines the child has written in this run
    reader,     \* per stream: the reader thread, its position and the line it holds
    queue,      \* the mpsc channel of StreamChunk between the readers and the loop
    term,       \* the terminal: whether the TUI is up and how often it was restored
    runs,       \* how many commands have been handed to execute_command
    visible,    \* rows of the session panel in the last frame (area.height - 2, >= 1)
    script,     \* the word that a scripted user types into a prompt, and how far
    logged      \* how many lines `line N` have been pushed to the session log

vars == <<app, pc, last, request, result, child, pipe, wrote, reader, queue, term,
          runs, visible, script, logged>>

-----------------------------------------------------------------------------
(* Bounds of the model *)

\* the user presses keys while the session log is shorter than this: in the
\* specification of the runs, and in the one of the prompts
MaxLog == 6
MaxPromptLog == 4
\* the characters typed into one prompt
MaxInput == 2
\* the lines a child writes to its standard output
MaxLines == 2
\* the counter of a command in the usage store that is loaded
MaxUsage == 1
\* the rows of the session panel
MaxVisible == 3
\* the characters of a query that the user edits key by key
MaxQuery == 2
\* the pieces of a line of output
MaxPieces == 3
\* the counter of a command that was run often
MaxUses == 12
\* the lines pushed beyond the cap of the session log
MaxEvict == 2

-----------------------------------------------------------------------------
(* Option<T> *)

None == [some |-> FALSE]
Some(v) == [some |-> TRUE, v |-> v]

At(s, i) == s[i + 1]

Min(a, b) == IF a < b THEN a ELSE b
Max(a, b) == IF a > b THEN a ELSE b
SaturatingSub(a, b) == IF a > b THEN a - b ELSE 0

-----------------------------------------------------------------------------
(* str helpers of the standard library, on sequences of characters *)

IsWhitespace(c) == c = " "

\* a trim that trims nothing
TrimNothing(s) == s

RECURSIVE TrimStart(_)
TrimStart(s) ==
    IF s # <<>> /\ IsWhitespace(Head(s)) THEN TrimStart(Tail(s)) ELSE s

RECURSIVE TrimEnd(_)
TrimEnd(s) ==
    IF s # <<>> /\ IsWhitespace(s[Len(s)]) THEN TrimEnd(SubSeq(s, 1, Len(s) - 1)) ELSE s

Trim(s) == TrimEnd(TrimStart(s))

LowerChar(c) ==
    CASE c = "Y" -> "y" [] c = "E" -> "e" [] c = "S" -> "s" [] c = "N" -> "n"
      [] c = "O" -> "o" [] c = "T" -> "t" [] c = "R" -> "r" [] c = "U" -> "u"
      [] c = "F" -> "f" [] c = "A" -> "a" [] c = "L" -> "l" [] c = "C" -> "c"
      [] c = "I" -> "i"
      [] OTHER -> c

ToAsciiLowercase(s) == [i \in 1..Len(s) |-> LowerChar(s[i])]

StartsWith(s, prefix) ==
    Len(prefix) <= Len(s) /\ SubSeq(s, 1, Len(prefix)) = prefix

Contains(s, needle) ==
    \E i \in 1..(Len(s) - Len(needle) + 1) : SubSeq(s, i, i + Len(needle) - 1) = needle

\* str::replace: every non-overlapping match, left to right
RECURSIVE Replace(_, _, _)
Replace(s, needle, value) ==
    IF Len(s) < Len(needle) \/ needle = <<>> THEN s
    ELSE IF StartsWith(s, needle)
         THEN value \o Replace(SubSeq(s, Len(needle) + 1, Len(s)), needle, value)
         ELSE <<Head(s)>> \o Replace(Tail(s), needle, value)

\* String::pop
Pop(s) == IF s = <<>> THEN s ELSE SubSeq(s, 1, Len(s) - 1)

\* str::to_lowercase, on the characters of the model
ToLowercase(s) == ToAsciiLowercase(s)

\* str::trim_start_matches(c)
RECURSIVE TrimStartMatches(_, _)
TrimStartMatches(s, c) ==
    IF s # <<>> /\ Head(s) = c THEN TrimStartMatches(Tail(s), c) ELSE s

\* char::is_alphanumeric, on the characters of the model
IsAlphanumeric(c) == c \notin {" ", "-", "/", ":", "?", "{", "}", ".", "'"}

\* str::split(|c| !c.is_alphanumeric()) without the empty pieces
RECURSIVE SplitWords(_, _)
SplitWords(s, word) ==
    IF s = <<>> THEN (IF word = <<>> THEN <<>> ELSE <<word>>)
    ELSE IF IsAlphanumeric(Head(s)) THEN SplitWords(Tail(s), Append(word, Head(s)))
    ELSE (IF word = <<>> THEN <<>> ELSE <<word>>) \o SplitWords(Tail(s), <<>>)

\* [String]::join(" ")
RECURSIVE Join(_)
Join(words) ==
    IF words = <<>> THEN <<>>
    ELSE IF Len(words) = 1 THEN words[1]
    ELSE words[1] \o <<" ">> \o Join(Tail(words))

\* the number of bytes of a character in UTF-8, and of a string (str::len)
Utf8Len(c) == IF c = "é" THEN 2 ELSE 1

RECURSIVE ByteLen(_)
ByteLen(s) == IF s = <<>> THEN 0 ELSE Utf8Len(Head(s)) + ByteLen(Tail(s))

\* the number of characters before the byte index, which must lie on a
\* character boundary (String::insert and String::replace_range panic otherwise)
CharsBefore(s, byte_index) ==
    CHOOSE k \in 0..Len(s) : ByteLen(SubSeq(s, 1, k)) = byte_index

\* String::insert(byte_index, ch)
StringInsert(s, byte_index, ch) ==
    LET k == CharsBefore(s, byte_index)
    IN  SubSeq(s, 1, k) \o <<ch>> \o SubSeq(s, k + 1, Len(s))

\* String::replace_range(start..end, "")
StringRemoveRange(s, start, end) ==
    SubSeq(s, 1, CharsBefore(s, start)) \o SubSeq(s, CharsBefore(s, end) + 1, Len(s))

\* all orders in which a HashMap with the key set S may be iterated
Orders(S) ==
    {o \in [1..Cardinality(S) -> S] : \A i, j \in 1..Cardinality(S) : i # j => o[i] # o[j]}

\* HashMap::insert
Insert(m, k, v) == [x \in DOMAIN m \cup {k} |-> IF x = k THEN v ELSE m[x]]

EmptyMap == [x \in {} |-> <<>>]

\* str::eq_ignore_ascii_case
EqIgnoreAsciiCase(a, b) == ToAsciiLowercase(a) = ToAsciiLowercase(b)

-----------------------------------------------------------------------------
(* Ordering of strings: String::cmp compares byte by byte *)

Ascii == <<" ", "-", "/", "0", "1", ":", "A", "E", "F", "L", "N", "O", "R", "S", "T", "U", "Y",
           "a", "b", "c", "d", "e", "f", "g", "h", "i", "j", "k", "l", "m", "n", "o",
           "p", "q", "r", "s", "t", "u", "v", "w", "x", "y", "z", "{", "}">>

CharCode(c) == CHOOSE i \in 1..Len(Ascii) : Ascii[i] = c

RECURSIVE StrLess(_, _)
StrLess(a, b) ==
    IF b = <<>> THEN FALSE
    ELSE IF a = <<>> THEN TRUE
    ELSE IF Head(a) = Head(b) THEN StrLess(Tail(a), Tail(b))
    ELSE CharCode(Head(a)) < CharCode(Head(b))

\* the comparison of the sort_by calls of refresh_filtered, on the tuples
\* (total, fuzzy, name) of two entries: total descending, then fuzzy
\* descending, then name ascending, then the position (the sort is stable)
RankBefore(x, y) ==
    \/ x.total > y.total
    \/ x.total = y.total /\ x.fuzzy > y.fuzzy
    \/ x.total = y.total /\ x.fuzzy = y.fuzzy /\ StrLess(x.name, y.name)
    \/ x.total = y.total /\ x.fuzzy = y.fuzzy /\ x.name = y.name /\ x.index < y.index

\* slice::sort_by: the indices of the scored entries in their order
\* the scored commands in the order of the catalog
RankedByIndex(scored) ==
    [k \in 1..Cardinality(scored) |->
        (CHOOSE x \in scored : Cardinality({y \in scored : y.index < x.index}) = k - 1).index]

Ranked(scored) ==
    [k \in 1..Cardinality(scored) |->
        (CHOOSE x \in scored : Cardinality({y \in scored : RankBefore(y, x)}) = k - 1).index]

-----------------------------------------------------------------------------
(* src/src/model.rs *)

ValueParam(name, default_value, value_value, required, prompt_in_tui) ==
    [name |-> name, kind |-> "Value", default_value |-> default_value,
     value_value |-> value_value, default_flag |-> None, value_flag |-> None,
     required |-> required, prompt_in_tui |-> prompt_in_tui]

FlagParam(name, default_flag, value_flag) ==
    [name |-> name, kind |-> "Flag", default_value |-> None, value_value |-> None,
     default_flag |-> default_flag, value_flag |-> value_flag,
     required |-> FALSE, prompt_in_tui |-> FALSE]

requires_input(param) ==
    IF param.kind = "Value"
    THEN ~param.value_value.some
         /\ (param.prompt_in_tui \/ param.required \/ ~param.default_value.some)
    ELSE ~param.value_flag.some

\* a token that always gets two dashes
FlagTokenDashed(param) == <<"-", "-">> \o param.name

flag_token(param) ==
    IF StartsWith(param.name, <<"-">>) THEN param.name ELSE <<"-", "-">> \o param.name

Needle(key) == <<"{", "{">> \o key \o <<"}", "}">>

\* `keys` is the order in which the HashMap hands out its entries
RECURSIVE render_template(_, _, _)
render_template(template, params, keys) ==
    IF keys = <<>> THEN template
    ELSE render_template(Replace(template, Needle(Head(keys)), params[Head(keys)]),
                         params, Tail(keys))

-----------------------------------------------------------------------------
(* The catalog the model starts with: CommandEntry values sorted by name *)

CmdBuild ==
    [name |-> <<"b", "u", "i", "l", "d">>, template |-> <<"m", "k">>,
     params |-> <<>>, source |-> "config", working_dir |-> Some("dir"),
     description |-> None]

CmdDeploy ==
    [name |-> <<"d", "e", "p", "l", "o", "y">>,
     template |-> <<"d", " ">> \o Needle(<<"e">>) \o <<" ">> \o Needle(<<"f">>),
     params |-> <<ValueParam(<<"e">>, None, None, TRUE, TRUE),
                  FlagParam(<<"f">>, Some(FALSE), None)>>,
     source |-> "config", working_dir |-> None, description |-> None]

CmdEcho ==
    [name |-> <<"e", "c", "h", "o">>,
     template |-> <<"e", " ">> \o Needle(<<"m">>),
     params |-> <<ValueParam(<<"m">>, None, None, FALSE, FALSE)>>,
     source |-> "artisan", working_dir |-> None, description |-> None]

CmdStatus ==
    [name |-> <<"s", "t", "a", "t", "u", "s">>, template |-> <<"s", "t">>,
     params |-> <<>>, source |-> "config", working_dir |-> None,
     description |-> Some(<<"s", "h", "o", "w", "s", " ", "e", "n", "v">>)]

CmdServe ==
    [name |-> <<"s", "e", "r", "v", "e">>,
     template |-> <<"s", " ">> \o Needle(<<"v">>),
     params |-> <<FlagParam(<<"v">>, Some(FALSE), None)>>,
     source |-> "config", working_dir |-> None, description |-> None]

CmdTest ==
    [name |-> <<"t", "e", "s", "t">>,
     template |-> <<"t", " ">> \o Needle(<<"-", "q">>),
     params |-> <<FlagParam(<<"-", "q">>, Some(TRUE), None)>>,
     source |-> "config", working_dir |-> None, description |-> None]

CmdGrep ==
    [name |-> <<"g", "r", "e", "p">>,
     template |-> <<"g", " ">> \o Needle(<<"-", "q">>) \o <<" ">> \o Needle(<<"a">>),
     params |-> <<FlagParam(<<"-", "q">>, None, None),
                  ValueParam(<<"a">>, None, None, FALSE, FALSE)>>,
     source |-> "justfile", working_dir |-> None, description |-> None]

CmdLink ==
    [name |-> <<"l", "i", "n", "k">>,
     template |-> <<"l", " ">> \o Needle(<<"a">>) \o <<" ">> \o Needle(<<"b">>)
                      \o <<" ">> \o Needle(<<"a">>) \o <<" ">> \o Needle(<<"f">>),
     params |-> <<ValueParam(<<"a">>, None, None, FALSE, FALSE),
                  ValueParam(<<"b">>, None, None, TRUE, TRUE),
                  FlagParam(<<"f">>, Some(FALSE), None)>>,
     source |-> "config", working_dir |-> None, description |-> None]

\* the catalog of the specification of the runs, the one of the prompts, the
\* one of the session log, the one of the flags and the one of the templates
Catalog == <<CmdBuild, CmdStatus>>
TemplateCatalog == <<CmdGrep, CmdLink>>
SearchCatalog == <<CmdEcho, CmdServe, CmdStatus>>
PromptCatalog == <<CmdDeploy, CmdEcho, CmdStatus>>
LogCatalog == <<CmdStatus>>
FlagCatalog == <<CmdServe, CmdTest>>

\* how many lines the child of a command line writes to a stream at most: `mk`
\* is the command with output (and at most one line of it on stderr), the
\* others are silent
OutputLines(command_line, stream) ==
    IF command_line # CmdBuild.template THEN 0
    ELSE IF stream = "Stdout" THEN MaxLines
    ELSE 1

-----------------------------------------------------------------------------
(* src/src/app.rs: constants and free functions *)

MAX_CHAT_LINES == 600

INTERRUPT_EXIT_CODE == 130

YesWords == {<<"y">>, <<"y", "e", "s">>, <<"t", "r", "u", "e">>, <<"1">>, <<"o", "n">>}
NoWords == {<<"n">>, <<"n", "o">>, <<"f", "a", "l", "s", "e">>, <<"0">>, <<"o", "f", "f">>}

parse_flag_input(input, default) ==
    LET trimmed == Trim(input)
        lowered == ToAsciiLowercase(trimmed)
    IN  IF trimmed = <<>> THEN Some(default)
        ELSE IF lowered \in YesWords THEN Some(TRUE)
        ELSE IF lowered \in NoWords THEN Some(FALSE)
        ELSE None

command_provider_name(command) == command.source

command_usage_key(command) == <<command_provider_name(command), "::">> \o command.name

\* the name of a provider, written out
Spelled(provider) ==
    CASE provider = "config" -> <<"c", "o", "n", "f", "i", "g">>
      [] provider = "artisan" -> <<"a", "r", "t", "i", "s", "a", "n">>
      [] provider = "composer" -> <<"c", "o", "m", "p", "o", "s", "e", "r">>
      [] provider = "justfile" -> <<"j", "u", "s", "t", "f", "i", "l", "e">>

\* the inverse of the alias map (every provider has at most one alias)
AliasByName(provider_aliases) ==
    [provider \in {provider_aliases[alias] : alias \in DOMAIN provider_aliases} |->
        CHOOSE alias \in DOMAIN provider_aliases : provider_aliases[alias] = provider]

provider_names_without_alias(commands, provider_alias_by_name) ==
    {ToAsciiLowercase(Spelled(command_provider_name(At(commands, c)))) :
        c \in {i \in 0..(Len(commands) - 1) :
                  Spelled(command_provider_name(At(commands, i)))
                      \notin DOMAIN provider_alias_by_name}}

\* the index of the first whitespace of s, or its length
FirstWhitespace(s) ==
    IF \E i \in 1..Len(s) : IsWhitespace(s[i])
    THEN (CHOOSE i \in 1..Len(s) :
              IsWhitespace(s[i]) /\ \A j \in 1..(i - 1) : ~IsWhitespace(s[j])) - 1
    ELSE Len(s)

\* a parse that takes the provider's name before its alias
parse_names_first(query, provider_aliases, names) ==
    LET after == Tail(TrimStart(query))
        alias_end == FirstWhitespace(after)
        alias == ToAsciiLowercase(Trim(SubSeq(after, 1, alias_end)))
        remaining == TrimStart(SubSeq(after, alias_end + 1, Len(after)))
        plain == [provider |-> None, query |-> query, unknown_alias |-> FALSE]
    IN  IF ~StartsWith(TrimStart(query), <<":">>) THEN plain
        ELSE IF alias = <<>> THEN plain
        ELSE IF alias \in names
        THEN [provider |-> Some(alias), query |-> remaining, unknown_alias |-> FALSE]
        ELSE IF alias \in DOMAIN provider_aliases
        THEN [provider |-> Some(provider_aliases[alias]), query |-> remaining,
              unknown_alias |-> FALSE]
        ELSE [provider |-> None, query |-> remaining, unknown_alias |-> TRUE]

parse_query_provider_filter(query, provider_aliases, names_without_alias) ==
    LET trimmed == TrimStart(query)
        after == Tail(trimmed)
        alias_end == FirstWhitespace(after)
        alias == ToAsciiLowercase(Trim(SubSeq(after, 1, alias_end)))
        remaining == TrimStart(SubSeq(after, alias_end + 1, Len(after)))
        plain == [provider |-> None, query |-> query, unknown_alias |-> FALSE]
    IN  IF ~StartsWith(trimmed, <<":">>) THEN plain
        ELSE IF alias = <<>> THEN plain
        ELSE IF alias \in DOMAIN provider_aliases
        THEN [provider |-> Some(provider_aliases[alias]), query |-> remaining,
              unknown_alias |-> FALSE]
        ELSE IF alias \in names_without_alias
        THEN [provider |-> Some(alias), query |-> remaining, unknown_alias |-> FALSE]
        ELSE [provider |-> None, query |-> remaining, unknown_alias |-> TRUE]

\* str::split_whitespace
RECURSIVE SplitWhitespace(_, _)
SplitWhitespace(s, word) ==
    IF s = <<>> THEN (IF word = <<>> THEN <<>> ELSE <<word>>)
    ELSE IF ~IsWhitespace(Head(s)) THEN SplitWhitespace(Tail(s), Append(word, Head(s)))
    ELSE (IF word = <<>> THEN <<>> ELSE <<word>>) \o SplitWhitespace(Tail(s), <<>>)

ForceWords == {<<"-", "-", "f", "o", "r", "c", "e">>, <<"-", "f">>}

InternalReload == [tag |-> "Reload"]
InternalInit(force) == [tag |-> "Init", force |-> force]
InternalUnknown(name) == [tag |-> "Unknown", name |-> name]

parse_internal_command(query) ==
    LET trimmed == Trim(query)
        parts == SplitWhitespace(Tail(trimmed), <<>>)
        name == IF parts = <<>> THEN <<>> ELSE ToAsciiLowercase(parts[1])
    IN  IF ~StartsWith(trimmed, <<"/">>) THEN None
        ELSE IF name = <<>> THEN Some(InternalUnknown(<<>>))
        ELSE IF name = <<"r", "e", "l", "o", "a", "d">> THEN Some(InternalReload)
        ELSE IF name = <<"i", "n", "i", "t">>
        THEN Some(InternalInit(\E i \in 2..Len(parts) : parts[i] \in ForceWords))
        ELSE Some(InternalUnknown(name))

\* a test that finds no force token
NeverForced(query) == FALSE

query_has_force_flag(query) ==
    LET parts == SplitWhitespace(query, <<>>)
    IN  \E i \in 1..Len(parts) : parts[i] \in ForceWords

\* the list of internal commands that AppState::new builds
InternalCommands ==
    <<[name |-> <<"/", "i", "n", "i", "t">>,
       description |-> <<"C", "r", "e", "a", "t", "e", " ", "d", "e", "f", "a", "u", "l",
                         "t", " ", "c", "o", "n", "f", "i", "g", " ", "f", "i", "l", "e">>,
       kind |-> "Init", default_force |-> FALSE],
      [name |-> <<"/", "r", "e", "l", "o", "a", "d">>,
       description |-> <<"R", "e", "l", "o", "a", "d", " ", "c", "o", "n", "f", "i", "g",
                         " ", "a", "n", "d", " ", "p", "r", "o", "v", "i", "d", "e", "r",
                         "s">>,
       kind |-> "Reload", default_force |-> FALSE]>>

byte_index_for_char(value, char_index) ==
    IF char_index = 0 THEN 0
    ELSE IF char_index < Len(value) THEN ByteLen(SubSeq(value, 1, char_index))
    ELSE ByteLen(value)

insert_char_at(value, char_index, ch) ==
    StringInsert(value, byte_index_for_char(value, char_index), ch)

\* a removal that takes everything from the character on
remove_to_end(value, char_index) ==
    LET start == byte_index_for_char(value, char_index)
    IN  IF start >= ByteLen(value) THEN [value |-> value, removed |-> FALSE]
        ELSE [value |-> StringRemoveRange(value, start, ByteLen(value)), removed |-> TRUE]

\* the string after the call, and what the call returns
remove_char_at(value, char_index) ==
    LET start == byte_index_for_char(value, char_index)
        end == byte_index_for_char(value, char_index + 1)
    IN  IF start >= ByteLen(value) THEN [value |-> value, removed |-> FALSE]
        ELSE [value |-> StringRemoveRange(value, start, end), removed |-> TRUE]

\* SkimMatcherV2::fuzzy_match of the crate fuzzy-matcher, whose code is not part
\* of the repository: there is a score exactly when the characters of the
\* pattern occur in the choice in their order.  The score of an empty pattern
\* is 0; the score of another match is positive and stands here as 16 for
\* every character of the pattern
RECURSIVE IsSubsequence(_, _)
IsSubsequence(pattern, choice) ==
    IF pattern = <<>> THEN TRUE
    ELSE IF choice = <<>> THEN FALSE
    ELSE IF Head(pattern) = Head(choice) THEN IsSubsequence(Tail(pattern), Tail(choice))
    ELSE IsSubsequence(pattern, Tail(choice))

fuzzy_match(choice, pattern) ==
    IF IsSubsequence(pattern, choice) THEN Some(16 * Len(pattern)) ELSE None

\* Option<i64>::unwrap_or_default
UnwrapOrDefault(option) == IF option.some THEN option.v ELSE 0

tokenize_for_match(raw) ==
    LET words == SplitWords(raw, <<>>)
    IN  [i \in 1..Len(words) |-> ToLowercase(words[i])]

token_match_quality(token, query_term) ==
    IF token = query_term THEN 2
    ELSE IF StartsWith(token, query_term) \/ Contains(token, query_term) THEN 1
    ELSE 0

\* the loop of terms_in_order from the name term of index cursor on
RECURSIVE InOrderFrom(_, _, _)
InOrderFrom(name_terms, cursor, query_terms) ==
    IF query_terms = <<>> THEN TRUE
    ELSE LET hits == {i \in cursor..(Len(name_terms) - 1) :
                         token_match_quality(At(name_terms, i), Head(query_terms)) > 0}
         IN  IF hits = {} THEN FALSE
             ELSE InOrderFrom(name_terms,
                              (CHOOSE i \in hits : \A j \in hits : i <= j) + 1,
                              Tail(query_terms))

terms_in_order(name_terms, query_terms) ==
    query_terms # <<>> /\ InOrderFrom(name_terms, 0, query_terms)

terms_contiguous(name_terms, query_terms) ==
    /\ query_terms # <<>>
    /\ Len(query_terms) <= Len(name_terms)
    /\ \E start \in 0..(Len(name_terms) - Len(query_terms)) :
          \A offset \in 0..(Len(query_terms) - 1) :
              token_match_quality(At(name_terms, start + offset),
                                  At(query_terms, offset)) # 0

\* the quality of the first name term that matches the query term, or 0
FirstNameHit(name_terms, query_term) ==
    LET hits == {i \in 1..Len(name_terms) :
                    token_match_quality(name_terms[i], query_term) > 0}
    IN  IF hits = {} THEN 0
        ELSE token_match_quality(name_terms[CHOOSE i \in hits : \A j \in hits : i <= j],
                                 query_term)

\* a score for every command, matched or not
NeverExcluded(fuzzy, name_hit, in_haystack, ordered_in_name, contiguous_in_name, phrase_match) ==
    Some([total |-> fuzzy * 10 + Cardinality({w \in DOMAIN name_hit : name_hit[w] > 0}) * 12000,
          fuzzy |-> fuzzy])

\* a score of the fuzzy match alone
FuzzyTotal(fuzzy, name_hit, in_haystack, ordered_in_name, contiguous_in_name, phrase_match) ==
    Some([total |-> fuzzy * 10, fuzzy |-> fuzzy])

\* the sum of score_command_match, from the hit of every query term in the
\* name (name_hit) and in the haystack (in_haystack)
MatchTotal(fuzzy, name_hit, in_haystack, ordered_in_name, contiguous_in_name, phrase_match) ==
    LET terms == DOMAIN name_hit
        exact_name_hits == Cardinality({t \in terms : name_hit[t] = 2})
        partial_name_hits == Cardinality({t \in terms : name_hit[t] = 1})
        description_hits == Cardinality({t \in terms : name_hit[t] = 0 /\ in_haystack[t]})
        coverage_hits == Cardinality({t \in terms : name_hit[t] > 0 \/ in_haystack[t]})
    IN  IF fuzzy = 0 /\ coverage_hits = 0 THEN None
        ELSE Some([total |-> fuzzy * 10
                               + exact_name_hits * 12000
                               + partial_name_hits * 6000
                               + coverage_hits * 10000
                               + description_hits * 2500
                               + (IF \A t \in terms : name_hit[t] > 0 THEN 35000 ELSE 0)
                               + (IF ordered_in_name THEN 10000 ELSE 0)
                               + (IF contiguous_in_name THEN 10000 ELSE 0)
                               + (IF phrase_match THEN 15000 ELSE 0),
                   fuzzy |-> fuzzy])

\* the part of score_command_match after the haystack has been built
ScoreHaystack(haystack, query, query_terms, name_terms, haystack_terms) ==
    IF query_terms = <<>>
    THEN Some([total |-> UnwrapOrDefault(fuzzy_match(haystack, ToLowercase(query))) * 10,
               fuzzy |-> UnwrapOrDefault(fuzzy_match(haystack, ToLowercase(query)))])
    ELSE MatchTotal(UnwrapOrDefault(fuzzy_match(haystack, ToLowercase(query))),
                    [t \in 1..Len(query_terms) |-> FirstNameHit(name_terms, query_terms[t])],
                    [t \in 1..Len(query_terms) |->
                        \E i \in 1..Len(haystack_terms) :
                            token_match_quality(haystack_terms[i], query_terms[t]) > 0],
                    terms_in_order(name_terms, query_terms),
                    terms_contiguous(name_terms, query_terms),
                    Join(query_terms) # <<>>
                        /\ Contains(Join(name_terms), Join(query_terms)))

score_command_match(query, query_terms, command) ==
    ScoreHaystack(ToLowercase(command.name)
                      \o (IF command.description.some
                          THEN <<" ">> \o ToLowercase(command.description.v)
                          ELSE <<>>),
                  query, query_terms,
                  tokenize_for_match(command.name),
                  tokenize_for_match(
                      ToLowercase(command.name)
                          \o (IF command.description.some
                              THEN <<" ">> \o ToLowercase(command.description.v)
                              ELSE <<>>)))

UiNone == [tag |-> "None"]
UiQuit == [tag |-> "Quit"]
UiRun(req) == [tag |-> "Run", request |-> req]
UiRunInternal(command) == [tag |-> "RunInternal", command |-> command]

SearchMode == [tag |-> "Search"]
\* a prompt that forgets that the run shall not return to the UI
PromptReturning(prompt) ==
    [tag |-> "Prompt", command_index |-> prompt.command_index,
     pending_params |-> prompt.pending_params, current_param |-> prompt.current_param,
     input |-> prompt.input, values |-> prompt.values, return_to_tui |-> TRUE]

PromptMode(prompt) ==
    [tag |-> "Prompt", command_index |-> prompt.command_index,
     pending_params |-> prompt.pending_params, current_param |-> prompt.current_param,
     input |-> prompt.input, values |-> prompt.values,
     return_to_tui |-> prompt.return_to_tui]
InternalPromptMode(command_index, input) ==
    [tag |-> "InternalPrompt", command_index |-> command_index, input |-> input]

-----------------------------------------------------------------------------
(* src/src/app.rs: impl AppState.  Every operator takes the AppState `a` and  *)
(* gives the AppState after the call (with the UiAction where the method     *)
(* returns one).                                                             *)

\* a log that is full turns the new line away
PushKeepOldest(a, kind, text) ==
    [a EXCEPT !.chat = IF Len(a.chat) < 600 THEN Append(a.chat, [kind |-> kind, text |-> text])
                       ELSE a.chat]

push_line(a, kind, text) ==
    LET pushed == Append(a.chat, [kind |-> kind, text |-> text])
        scroll == IF a.active_pane = "Commands" THEN 0 ELSE a.session_scroll
        overflow == Len(pushed) - MAX_CHAT_LINES
    IN  IF Len(pushed) > MAX_CHAT_LINES
        THEN [a EXCEPT !.chat = SubSeq(pushed, overflow + 1, Len(pushed)),
                       !.session_scroll = SaturatingSub(scroll, overflow)]
        ELSE [a EXCEPT !.chat = pushed, !.session_scroll = scroll]

push_info(a, text) == push_line(a, "Info", text)
push_command(a, text) == push_line(a, "Command", text)
push_error(a, text) == push_line(a, "Stderr", text)

start_loading(a) == [a EXCEPT !.is_loading = TRUE]
stop_loading(a) == [a EXCEPT !.is_loading = FALSE]

\* a record_usage that forgets the run
RecordNothing(a, key) == a

\* the counters are u64 and the store is read from TOML integers (at most
\* 2^63 - 1), so that the saturating_add never saturates
record_usage(a, key) ==
    LET old == IF key \in DOMAIN a.usage_counts THEN a.usage_counts[key] ELSE 0
    IN  [a EXCEPT !.usage_counts = Insert(a.usage_counts, key, old + 1)]

\* a boost of the raw weight, whatever the setting
RawBoost(a, command) ==
    (IF command_usage_key(command) \in DOMAIN a.usage_counts
     THEN a.usage_counts[command_usage_key(command)] ELSE 0) * a.ranking.usage_weight

usage_boost_for_command(a, command) ==
    IF ~a.ranking.usage_enabled THEN 0
    ELSE LET key == command_usage_key(command)
             usage == IF key \in DOMAIN a.usage_counts THEN a.usage_counts[key] ELSE 0
         IN  usage * Max(a.ranking.usage_weight, 0)

\* the entries of `idx` (indices into a.commands) in the order of a stable sort
\* by (usage boost descending, lowercase name ascending)
OrderedByUsage(a, idx) ==
    LET boost(i) == usage_boost_for_command(a, At(a.commands, i))
        lname(i) == ToAsciiLowercase(At(a.commands, i).name)
        Before(i, j) ==
            \/ boost(i) > boost(j)
            \/ boost(i) = boost(j) /\ StrLess(lname(i), lname(j))
            \/ boost(i) = boost(j) /\ lname(i) = lname(j) /\ i < j
        rank(i) == Cardinality({j \in idx : Before(j, i)})
    IN  [k \in 1..Cardinality(idx) |-> CHOOSE i \in idx : rank(i) = k - 1]

\* a test that takes every query for one of internal commands
AlwaysInternal(a) == TRUE

is_internal_query(a) == StartsWith(TrimStart(a.query), <<"/">>)

\* the tuple that refresh_filtered pushes for the internal command of the
\* index, with the outcome of the test that keeps it in the result
InternalScore(index, command, normalized, haystack) ==
    IF normalized = <<>>
    THEN [index |-> index, keep |-> TRUE, total |-> 10, fuzzy |-> 0, name |-> command.name]
    ELSE [index |-> index,
          keep |-> UnwrapOrDefault(fuzzy_match(haystack, normalized)) > 0
                      \/ Contains(haystack, normalized),
          total |-> UnwrapOrDefault(fuzzy_match(haystack, normalized)) * 10
                      + (IF Contains(haystack, normalized) THEN 10000 ELSE 0),
          fuzzy |-> 0,
          name |-> command.name]

\* the branch of refresh_filtered for a query of internal commands
InternalFiltered(a) ==
    LET sorted == Ranked({x \in {InternalScore(
                                    i, At(a.internal_commands, i),
                                    ToLowercase(Trim(TrimStartMatches(TrimStart(a.query), "/"))),
                                    ToLowercase(At(a.internal_commands, i).name \o <<" ">>
                                                  \o At(a.internal_commands, i).description)) :
                                   i \in 0..(Len(a.internal_commands) - 1)} : x.keep})
    IN  [k \in 1..Len(sorted) |-> [tag |-> "Internal", index |-> sorted[k]]]

\* the tuple that refresh_filtered pushes for the command of the index
CommandScore(index, command, matched, usage_bonus) ==
    [index |-> index, keep |-> matched.some,
     total |-> IF matched.some THEN matched.v.total + usage_bonus ELSE 0,
     fuzzy |-> IF matched.some THEN matched.v.fuzzy ELSE 0,
     name |-> ToLowercase(command.name)]

\* the branch of refresh_filtered for a query with words to match, over the
\* commands of the provider
ScoredFiltered(a, provided, query) ==
    LET sorted == Ranked({x \in {CommandScore(
                                    i, At(a.commands, i),
                                    score_command_match(query, tokenize_for_match(query),
                                                        At(a.commands, i)),
                                    usage_boost_for_command(a, At(a.commands, i))) :
                                   i \in provided} : x.keep})
    IN  [k \in 1..Len(sorted) |-> [tag |-> "Command", index |-> sorted[k]]]

\* a refresh that keeps the result and the selection
KeepResult(a) == a

refresh_filtered(a) ==
    IF is_internal_query(a)
    THEN [a EXCEPT !.filtered = InternalFiltered(a), !.selected = 0]
    ELSE LET parsed == parse_query_provider_filter(a.query, a.provider_aliases,
                                                   a.provider_names_without_alias)
             provided == {i \in 0..(Len(a.commands) - 1) :
                             ~parsed.provider.some
                             \/ EqIgnoreAsciiCase(
                                    Spelled(command_provider_name(At(a.commands, i))),
                                    parsed.provider.v)}
             ordered == OrderedByUsage(a, provided)
         IN  IF parsed.unknown_alias
             THEN [a EXCEPT !.filtered = <<>>, !.selected = 0]
             ELSE IF parsed.query = <<>>
             THEN [a EXCEPT !.filtered = [k \in 1..Len(ordered) |->
                                             [tag |-> "Command", index |-> ordered[k]]],
                            !.selected = 0]
             ELSE [a EXCEPT !.filtered = ScoredFiltered(a, provided, parsed.query),
                            !.selected = 0]

\* a move that stops at the ends of the result
MoveWithoutWrap(a, direction) ==
    IF a.filtered = <<>> THEN [a EXCEPT !.selected = 0]
    ELSE [a EXCEPT !.selected = Max(a.selected + direction, 0)]

move_selection(a, direction) ==
    IF a.filtered = <<>> THEN [a EXCEPT !.selected = 0]
    ELSE [a EXCEPT !.selected = (a.selected + direction) % Len(a.filtered)]

scroll_session(a, delta) ==
    IF delta > 0
    THEN [a EXCEPT !.session_scroll =
              Min(a.session_scroll + delta, SaturatingSub(Len(a.chat), 1))]
    ELSE IF delta < 0
    THEN [a EXCEPT !.session_scroll = SaturatingSub(a.session_scroll, -delta)]
    ELSE a

current_command_index(a) ==
    IF a.selected < Len(a.filtered) /\ At(a.filtered, a.selected).tag = "Command"
    THEN Some(At(a.filtered, a.selected).index)
    ELSE None

\* a selection that is always the first internal command
FirstInternal(a) == Some(0)

current_internal_index(a) ==
    IF a.selected < Len(a.filtered) /\ At(a.filtered, a.selected).tag = "Internal"
    THEN Some(At(a.filtered, a.selected).index)
    ELSE None

\* a reload that takes the catalog of the payload and nothing else
ReplaceOnlyCatalog(a, payload) == [a EXCEPT !.commands = payload.commands]

apply_reload_payload(a, payload) ==
    LET by_name == AliasByName(payload.provider_aliases)
        b == refresh_filtered(
                 [a EXCEPT !.commands = payload.commands,
                           !.provider_aliases = payload.provider_aliases,
                           !.provider_alias_by_name = by_name,
                           !.provider_names_without_alias =
                               provider_names_without_alias(payload.commands, by_name),
                           !.ranking = payload.ranking])
    IN  IF b.selected >= Len(b.filtered) THEN [b EXCEPT !.selected = 0] ELSE b

-----------------------------------------------------------------------------
(* Keys: KeyEvent { code, modifiers }; ch is the character of KeyCode::Char *)

Key(code) == [ch |-> "", code |-> code, mods |-> "none"]
AltKey(code) == [ch |-> "", code |-> code, mods |-> "alt"]
CharKey(ch) == [ch |-> ch, code |-> "Char", mods |-> "none"]
CtrlKey(ch) == [ch |-> ch, code |-> "Char", mods |-> "ctrl"]

\* key.modifiers.is_empty() || key.modifiers == KeyModifiers::SHIFT
IsTyped(key) == key.code = "Char" /\ key.mods \in {"none", "shift"}

-----------------------------------------------------------------------------
(* The order in which a HashMap<String, String> is iterated is not fixed:   *)
(* `order` lists the parameter names of the command, and a map hands out    *)
(* its keys in the order in which `order` lists them.                       *)

ParamNames(command) ==
    {At(command.params, p).name : p \in 0..(Len(command.params) - 1)}

IterationOrder(values, order) == SelectSeq(order, LAMBDA k : k \in DOMAIN values)

build_run_request(a, index, values, return_to_tui, order) ==
    LET command == At(a.commands, index)
        rendered == render_template(command.template, values, IterationOrder(values, order))
    IN  IF Contains(rendered, <<"{", "{">>) /\ Contains(rendered, <<"}", "}">>)
        THEN [app |-> push_info(a, <<"Command '">> \o command.name
                                    \o <<"' still has unresolved placeholders">>),
              action |-> UiNone]
        ELSE [app |-> refresh_filtered([a EXCEPT !.query = <<>>, !.query_cursor = 0]),
              action |-> UiRun([display_name |-> command.name,
                                command_line |-> rendered,
                                working_dir |-> command.working_dir,
                                usage_key |-> command_usage_key(command),
                                return_to_tui |-> return_to_tui])]

\* the loop of prepare_selected_command over the parameters from index idx on:
\* the values known without asking and the parameters to be asked
RECURSIVE CollectParams(_, _, _)
CollectParams(params, idx, acc) ==
    IF idx >= Len(params) THEN acc
    ELSE LET param == At(params, idx)
             token(on) == IF on THEN flag_token(param) ELSE <<>>
             with(v) == [acc EXCEPT !.values = Insert(acc.values, param.name, v)]
             pending == [acc EXCEPT !.pending_params = Append(acc.pending_params, idx)]
             next ==
                IF param.kind = "Value"
                THEN IF param.value_value.some THEN with(param.value_value.v)
                     ELSE IF requires_input(param) THEN pending
                     ELSE IF param.default_value.some THEN with(param.default_value.v)
                     ELSE acc
                ELSE IF param.value_flag.some THEN with(token(param.value_flag.v))
                     ELSE IF requires_input(param) THEN pending
                     ELSE with(token(param.default_flag.some /\ param.default_flag.v))
         IN  CollectParams(params, idx + 1, next)

prepare_selected_command(a, return_to_tui, order) ==
    LET selected == current_command_index(a)
    IN  IF ~selected.some
        THEN [app |-> push_info(a, <<"No command selected">>), action |-> UiNone]
        ELSE LET command_index == selected.v
                 got == CollectParams(At(a.commands, command_index).params, 0,
                                      [values |-> EmptyMap, pending_params |-> <<>>])
             IN  IF got.pending_params = <<>>
                 THEN build_run_request(a, command_index, got.values, return_to_tui, order)
                 ELSE [app |-> [a EXCEPT !.mode = PromptMode(
                                     [command_index |-> command_index,
                                      pending_params |-> got.pending_params,
                                      current_param |-> 0,
                                      input |-> <<>>,
                                      values |-> got.values,
                                      return_to_tui |-> return_to_tui])],
                       action |-> UiNone]

\* an end of a resolved prompt that always goes on to a next parameter
AdvanceUnchecked(a, prompt, values, order) ==
    [app |-> [a EXCEPT !.mode = PromptMode(
                  [prompt EXCEPT !.values = values,
                                 !.current_param = prompt.current_param + 1,
                                 !.input = <<>>])],
     action |-> UiNone]

\* the end of a resolved prompt: the next parameter, or the run request
AdvancePrompt(a, prompt, values, order) ==
    LET current_param == prompt.current_param + 1
    IN  IF current_param >= Len(prompt.pending_params)
        THEN build_run_request([a EXCEPT !.mode = SearchMode], prompt.command_index,
                               values, prompt.return_to_tui, order)
        ELSE [app |-> [a EXCEPT !.mode = PromptMode(
                            [prompt EXCEPT !.values = values,
                                           !.current_param = current_param,
                                           !.input = <<>>])],
              action |-> UiNone]

\* a prompt that any key closes without a word
CancelSilently(a, key, order) ==
    [app |-> [a EXCEPT !.mode = SearchMode], action |-> UiNone]

on_prompt_key(a, key, order) ==
    LET prompt == a.mode
        param_index == At(prompt.pending_params, prompt.current_param)
        param == At(At(a.commands, prompt.command_index).params, param_index)
        token(on) == IF on THEN flag_token(param) ELSE <<>>
        default_flag == param.default_flag.some /\ param.default_flag.v
        keep(p) == [app |-> [a EXCEPT !.mode = PromptMode(p)], action |-> UiNone]
    IN  IF key.code = "Esc"
        THEN [app |-> [push_info(a, <<"Parameter entry canceled">>)
                          EXCEPT !.mode = SearchMode],
              action |-> UiNone]
        ELSE IF key.code = "Backspace"
        THEN keep([prompt EXCEPT !.input = Pop(prompt.input)])
        ELSE IF IsTyped(key)
        THEN LET typed == parse_flag_input(<<key.ch>>, default_flag)
             IN  IF param.kind = "Flag" /\ typed.some
                 THEN AdvancePrompt(a, prompt,
                                    Insert(prompt.values, param.name, token(typed.v)), order)
                 ELSE keep([prompt EXCEPT !.input = Append(prompt.input, key.ch)])
        ELSE IF key.code = "Enter"
        THEN LET input == Trim(prompt.input)
             IN  IF param.kind = "Value"
                 THEN IF input = <<>> /\ ~param.default_value.some /\ param.required
                      THEN [app |-> [push_info(a, <<"'">> \o param.name \o <<"' is required">>)
                                        EXCEPT !.mode = PromptMode(prompt)],
                            action |-> UiNone]
                      ELSE LET value == IF input # <<>> THEN input
                                        ELSE IF param.default_value.some
                                        THEN param.default_value.v
                                        ELSE <<>>
                           IN  AdvancePrompt(a, prompt,
                                   IF value # <<>>
                                   THEN Insert(prompt.values, param.name, value)
                                   ELSE prompt.values,
                                   order)
                 ELSE LET flag_value == parse_flag_input(input, default_flag)
                      IN  IF ~flag_value.some
                          THEN [app |-> [push_info(a, <<"Please enter y or n">>)
                                            EXCEPT !.mode = PromptMode(prompt)],
                                action |-> UiNone]
                          ELSE AdvancePrompt(a, prompt,
                                   Insert(prompt.values, param.name, token(flag_value.v)),
                                   order)
        ELSE keep(prompt)

prepare_selected_internal_command(a) ==
    LET trimmed == Trim(a.query)
        parsed == parse_internal_command(trimmed)
        index == current_internal_index(a)
    IN  IF parsed.some /\ parsed.v.tag = "Reload"
        THEN [app |-> a, action |-> UiRunInternal(InternalReload)]
        ELSE IF parsed.some /\ parsed.v.tag = "Init" /\ query_has_force_flag(trimmed)
        THEN [app |-> a, action |-> UiRunInternal(InternalInit(parsed.v.force))]
        ELSE IF ~index.some
        THEN [app |-> push_info(a, <<"Unknown internal command. Available: /reload, /init">>),
              action |-> UiNone]
        ELSE IF At(a.internal_commands, index.v).kind = "Reload"
        THEN [app |-> a, action |-> UiRunInternal(InternalReload)]
        ELSE [app |-> [a EXCEPT !.mode = InternalPromptMode(index.v, <<>>)],
              action |-> UiNone]

on_internal_prompt_key(a, key) ==
    LET prompt_state == a.mode
        default == At(a.internal_commands, prompt_state.command_index).default_force
        keep(input) ==
            [app |-> [a EXCEPT !.mode = InternalPromptMode(prompt_state.command_index, input)],
             action |-> UiNone]
        run(force) ==
            [app |-> [a EXCEPT !.mode = SearchMode],
             action |-> UiRunInternal(InternalInit(force))]
    IN  IF key.code = "Esc"
        THEN [app |-> [push_info(a, <<"Internal command canceled">>)
                          EXCEPT !.mode = SearchMode],
              action |-> UiNone]
        ELSE IF key.code = "Backspace"
        THEN keep(Pop(prompt_state.input))
        ELSE IF IsTyped(key)
        THEN LET typed == parse_flag_input(<<key.ch>>, default)
             IN  IF typed.some THEN run(typed.v)
                 ELSE keep(Append(prompt_state.input, key.ch))
        ELSE IF key.code = "Enter"
        THEN LET force == parse_flag_input(Trim(prompt_state.input), default)
             IN  IF ~force.some
                 THEN [app |-> [push_info(a, <<"Please enter y or n">>)
                                   EXCEPT !.mode = prompt_state],
                       action |-> UiNone]
                 ELSE run(force.v)
        ELSE keep(prompt_state.input)

on_search_key(a, key, order) ==
    LET none(b) == [app |-> b, action |-> UiNone]
        session == a.active_pane = "Session"
        count == Len(a.query)
        backspace == remove_char_at(a.query, a.query_cursor - 1)
        delete == remove_char_at(a.query, a.query_cursor)
        commands(b) == [b EXCEPT !.active_pane = "Commands"]
    IN  IF key.code = "Char" /\ key.ch = "?"
        THEN none([a EXCEPT !.show_help = TRUE])
        ELSE IF key.code = "Tab"
        THEN none([a EXCEPT !.active_pane = IF session THEN "Commands" ELSE "Session"])
        ELSE IF key.code = "Esc"
        THEN IF a.query = <<>> THEN [app |-> a, action |-> UiQuit]
             ELSE none([refresh_filtered([a EXCEPT !.query = <<>>, !.query_cursor = 0])
                           EXCEPT !.active_pane = "Commands"])
        ELSE IF key.code = "Enter"
        THEN IF session THEN none(a)
             ELSE IF is_internal_query(a) THEN prepare_selected_internal_command(a)
             ELSE prepare_selected_command(a, key.mods # "alt", order)
        ELSE IF key.code = "Left"
        THEN none(commands([a EXCEPT !.query_cursor = IF @ > 0 THEN @ - 1 ELSE @]))
        ELSE IF key.code = "Right"
        THEN none(commands([a EXCEPT !.query_cursor = IF @ < count THEN @ + 1 ELSE @]))
        ELSE IF key.code = "Home"
        THEN none(commands([a EXCEPT !.query_cursor = 0]))
        ELSE IF key.code = "End"
        THEN none(commands([a EXCEPT !.query_cursor = count]))
        ELSE IF key.code = "Up"
        THEN none(IF session THEN scroll_session(a, 1) ELSE move_selection(a, -1))
        ELSE IF key.code = "Down"
        THEN none(IF session THEN scroll_session(a, -1) ELSE move_selection(a, 1))
        ELSE IF key.code = "PageUp"
        THEN none(IF session THEN scroll_session(a, 10) ELSE move_selection(a, -10))
        ELSE IF key.code = "PageDown"
        THEN none(IF session THEN scroll_session(a, -10) ELSE move_selection(a, 10))
        ELSE IF key.code = "Char" /\ key.ch = "j" /\ key.mods = "ctrl"
        THEN none(IF session THEN scroll_session(a, -1) ELSE move_selection(a, 1))
        ELSE IF key.code = "Char" /\ key.ch = "k" /\ key.mods = "ctrl"
        THEN none(IF session THEN scroll_session(a, 1) ELSE move_selection(a, -1))
        ELSE IF key.code = "Char" /\ key.ch = "c" /\ key.mods = "ctrl"
        THEN [app |-> a, action |-> UiQuit]
        ELSE IF key.code = "Backspace"
        THEN IF a.query_cursor > 0 /\ backspace.removed
             THEN none(commands(refresh_filtered(
                      [a EXCEPT !.query = backspace.value,
                                !.query_cursor = a.query_cursor - 1])))
             ELSE none(commands(a))
        ELSE IF key.code = "Delete"
        THEN IF delete.removed
             THEN none(commands(refresh_filtered([a EXCEPT !.query = delete.value])))
             ELSE none(commands(a))
        ELSE IF IsTyped(key)
        THEN none(refresh_filtered(
                 [a EXCEPT !.active_pane = "Commands",
                           !.query = insert_char_at(a.query, a.query_cursor, key.ch),
                           !.query_cursor = a.query_cursor + 1]))
        ELSE none(a)

\* a help that takes every key for itself
HelpSwallows(a, key, order) ==
    IF a.show_help THEN [app |-> [a EXCEPT !.show_help = FALSE], action |-> UiNone]
    ELSE IF a.mode.tag = "Search" THEN on_search_key(a, key, order)
    ELSE IF a.mode.tag = "Prompt" THEN on_prompt_key(a, key, order)
    ELSE on_internal_prompt_key(a, key)

on_key(a, key, order) ==
    IF a.show_help /\ (key.code = "Esc" \/ (key.code = "Char" /\ key.ch = "?"))
    THEN [app |-> [a EXCEPT !.show_help = FALSE], action |-> UiNone]
    ELSE LET b == [a EXCEPT !.show_help = FALSE]
         IN  IF b.mode.tag = "Search" THEN on_search_key(b, key, order)
             ELSE IF b.mode.tag = "Prompt" THEN on_prompt_key(b, key, order)
             ELSE on_internal_prompt_key(b, key)

-----------------------------------------------------------------------------
(* AppState::new, run_tui and the processes of a run *)

Streams == {"Stdout", "Stderr"}

\* line number k that the child of run r writes to the stream
LineText(stream, r, k) == <<stream, ":", ToString(r), ".", ToString(k)>>

\* ExitStatus: the code of a child that exited, or none for one ended by a signal
ExitStatuses == {Some(0), Some(INTERRUPT_EXIT_CODE), None}

ExitCode(status) == IF status.some THEN status.v ELSE 0

NoRequest == [display_name |-> <<>>, command_line |-> <<>>, working_dir |-> None,
              usage_key |-> <<>>, return_to_tui |-> TRUE]

NoChild == [state |-> "none", status |-> None, piped |-> FALSE]

NoReaders == [s \in Streams |-> [at |-> "done", line |-> <<>>]]

\* no word is being typed by script
NoScript == [active |-> FALSE, word |-> <<>>, typed |-> 0]

\* mpsc::channel: the chunks in flight and whether the receiver still exists
NoChannel == [chunks |-> <<>>, rx |-> FALSE]

new(commands, provider_aliases, ranking, usage_counts) ==
    LET a0 == [commands |-> commands, filtered |-> <<>>,
               internal_commands |-> InternalCommands, selected |-> 0,
               query |-> <<>>, query_cursor |-> 0, mode |-> SearchMode, chat |-> <<>>,
               provider_aliases |-> provider_aliases,
               provider_alias_by_name |-> AliasByName(provider_aliases),
               provider_names_without_alias |->
                   provider_names_without_alias(commands, AliasByName(provider_aliases)),
               ranking |-> ranking, usage_counts |-> usage_counts,
               is_loading |-> FALSE, show_help |-> FALSE,
               active_pane |-> "Commands", session_scroll |-> 0]
        a1 == refresh_filtered(a0)
        a2 == push_info(a1, <<"Loaded ", ToString(Len(commands)), " commands">>)
    IN  push_info(a2, <<"Config: none (providers only or defaults)">>)

UsageKeys(commands) == {command_usage_key(At(commands, c)) : c \in 0..(Len(commands) - 1)}

\* what load_usage_store may find on disk: no file, or a counter for every command
UsageStores(commands) ==
    {EmptyMap, [k \in UsageKeys(commands) |-> MaxUsage]}

DefaultRanking == [usage_enabled |-> TRUE, usage_weight |-> 8000]

InitProcesses ==
    /\ pc = "await_key"
    /\ last = [key |-> Key("None"), action |-> UiNone]
    /\ request = NoRequest
    /\ result = [tag |-> "None"]
    /\ child = NoChild
    /\ pipe = [s \in Streams |-> <<>>]
    /\ wrote = [s \in Streams |-> 0]
    /\ reader = NoReaders
    /\ queue = NoChannel
    /\ term = [tui |-> TRUE, restored |-> 0]
    /\ runs = 0
    /\ script = NoScript
    /\ logged = 0

Init ==
    /\ \E usage \in UsageStores(Catalog) : app = new(Catalog, EmptyMap, DefaultRanking, usage)
    /\ visible = MaxVisible
    /\ InitProcesses

InitPrompt ==
    /\ app = new(PromptCatalog, EmptyMap, DefaultRanking, EmptyMap)
    /\ visible = MaxVisible
    /\ InitProcesses

InitLog ==
    /\ app = new(LogCatalog, EmptyMap, DefaultRanking, EmptyMap)
    /\ visible \in 1..MaxVisible
    /\ InitProcesses

InitTemplate ==
    /\ app = new(TemplateCatalog, EmptyMap, DefaultRanking, EmptyMap)
    /\ visible = MaxVisible
    /\ InitProcesses

\* the alias maps that Providers::alias_map may give: none, the alias `a`
\* for artisan, and for artisan the alias `config`, the name of another provider
AliasMaps ==
    {EmptyMap,
     [alias \in {<<"a">>} |-> <<"a", "r", "t", "i", "s", "a", "n">>],
     [alias \in {<<"c", "o", "n", "f", "i", "g">>} |-> <<"a", "r", "t", "i", "s", "a", "n">>]}

InitSearch ==
    /\ \E provider_aliases \in AliasMaps :
          app = new(SearchCatalog, provider_aliases, DefaultRanking, EmptyMap)
    /\ visible = MaxVisible
    /\ InitProcesses

\* the candidates of the ranking tests (mock_command), in the order of the catalog
CmdCacheClear ==
    [name |-> <<"a", "r", "t", "i", "s", "a", "n", " ", "c", "a", "c", "h", "e", ":", "c", "l", "e", "a", "r">>,
     template |-> <<"a", "r", "t", "i", "s", "a", "n", " ", "c", "a", "c", "h", "e", ":", "c", "l", "e", "a", "r">>,
     params |-> <<>>,
     source |-> "artisan", working_dir |-> None,
     description |-> Some(<<"a", "r", "t", "i", "s", "a", "n", " ", "c", "o", "m", "m", "a", "n", "d">>)]

CmdCacheTable ==
    [name |-> <<"a", "r", "t", "i", "s", "a", "n", " ", "c", "a", "c", "h", "e", ":", "t", "a", "b", "l", "e">>,
     template |-> <<"a", "r", "t", "i", "s", "a", "n", " ", "c", "a", "c", "h", "e", ":", "t", "a", "b", "l", "e">>,
     params |-> <<>>,
     source |-> "artisan", working_dir |-> None,
     description |-> Some(<<"a", "r", "t", "i", "s", "a", "n", " ", "c", "o", "m", "m", "a", "n", "d">>)]

CmdClearCompiled ==
    [name |-> <<"a", "r", "t", "i", "s", "a", "n", " ", "c", "l", "e", "a", "r", "-", "c", "o", "m", "p", "i", "l", "e", "d">>,
     template |-> <<"a", "r", "t", "i", "s", "a", "n", " ", "c", "l", "e", "a", "r", "-", "c", "o", "m", "p", "i", "l", "e", "d">>,
     params |-> <<>>,
     source |-> "artisan", working_dir |-> None,
     description |-> Some(<<"a", "r", "t", "i", "s", "a", "n", " ", "c", "o", "m", "m", "a", "n", "d">>)]

RankCatalog == <<CmdCacheClear, CmdCacheTable, CmdClearCompiled>>

\* the ranking of the configuration: the default, no weight, a negative weight,
\* and the usage ranking switched off
RankSettings ==
    {DefaultRanking,
     [usage_enabled |-> TRUE, usage_weight |-> 0],
     [usage_enabled |-> TRUE, usage_weight |-> 0 - 8000],
     [usage_enabled |-> FALSE, usage_weight |-> 8000]}

\* what load_usage_store may find on disk: for every command no counter, a
\* counter of one run, or the counter of a command run often
RankUsage ==
    UNION {[keys -> {1, MaxUses}] : keys \in SUBSET UsageKeys(RankCatalog)}

InitRank ==
    /\ \E ranking \in RankSettings, usage_counts \in RankUsage :
          app = new(RankCatalog, EmptyMap, ranking, usage_counts)
    /\ visible = MaxVisible
    /\ InitProcesses

InitFlag ==
    /\ app = new(FlagCatalog, EmptyMap, DefaultRanking, EmptyMap)
    /\ visible = MaxVisible
    /\ InitProcesses

-----------------------------------------------------------------------------
(* run_loop: one key event, handled by AppState::on_key *)

\* the keys of the specification of the runs: select, start a run either way, quit
RunKeys == {Key("Enter"), AltKey("Enter"), Key("Down"), Key("Esc")}

\* the keys of the session pane: the change of pane and the scrolling
ScrollKeys ==
    {Key("Tab"), Key("Up"), Key("Down"), Key("PageUp"), Key("PageDown"),
     CtrlKey("j"), CtrlKey("k")}

TypedChars == {"a", " ", "y"}

PromptKeys ==
    {Key("Esc"), Key("Enter"), Key("Backspace"), Key("Tab")} \cup {CharKey(c) : c \in TypedChars}

\* the keys the user of this model may press in the state: the typed text is bounded
KeysNow ==
    IF app.mode.tag = "Search" THEN RunKeys
    ELSE {k \in PromptKeys : IsTyped(k) => Len(app.mode.input) < MaxInput}

\* the command a key may run: the one of the open prompt, else the selected one
CommandAtHand ==
    IF app.mode.tag = "Prompt" THEN At(app.commands, app.mode.command_index)
    ELSE IF current_command_index(app).some
    THEN At(app.commands, current_command_index(app).v)
    ELSE [params |-> <<>>]

restore_terminal(t) == [tui |-> FALSE, restored |-> t.restored + 1]

\* the effect of one key on the control thread: on_key, then the match of run_loop
HandleKey(key, order) ==
    \E r \in {on_key(app, key, order)} :
        /\ app' = r.app
        /\ last' = [key |-> key, action |-> r.action]
        /\ IF r.action.tag = "Run"
           THEN pc' = "execute" /\ request' = r.action.request /\ term' = term
           ELSE IF r.action.tag = "RunInternal"
           THEN pc' = "execute_internal" /\ request' = request /\ term' = term
           ELSE IF r.action.tag = "Quit"
           THEN pc' = "quit" /\ request' = request /\ term' = restore_terminal(term)
           ELSE pc' = pc /\ request' = request /\ term' = term

KeyEvent(keys, cap) ==
    /\ pc = "await_key"
    /\ ~script.active
    /\ Len(app.chat) < cap
    /\ \E key \in keys, order \in Orders(ParamNames(CommandAtHand)) : HandleKey(key, order)
    /\ UNCHANGED <<result, child, pipe, wrote, reader, queue, runs, visible, script, logged>>

-----------------------------------------------------------------------------
(* execute_command *)

\* the lines of execute_command before the child is started, in streamed mode
BeforeStreaming(a, req) ==
    LET a1 == push_command([a EXCEPT !.mode = SearchMode], req.command_line)
        a2 == IF req.working_dir.some
              THEN push_info(a1, <<"working directory: ", req.working_dir.v>>)
              ELSE a1
    IN  start_loading(a2)

\* the lines of execute_command after run_shell_command_streaming has returned
AfterStreaming(a, req, run_result) ==
    LET a1 == IF run_result.tag = "Err"
              THEN push_error(a, <<"execution failed: failed to start shell command">>)
              ELSE IF run_result.interrupted
              THEN push_info(a, <<"Interrupted by user (Escape)">>)
              ELSE push_info(a, <<"exit code: ", ToString(run_result.exit_code)>>)
    IN  record_usage(stop_loading(a1), req.usage_key)

Ok(exit_code, interrupted) ==
    [tag |-> "Ok", exit_code |-> exit_code, interrupted |-> interrupted]
Err == [tag |-> "Err"]

\* Command::spawn with piped output, and the two reader threads on a new channel
Spawned ==
    /\ child' = [state |-> "running", status |-> None, piped |-> TRUE]
    /\ pipe' = [s \in Streams |-> <<>>]
    /\ wrote' = [s \in Streams |-> 0]
    /\ reader' = [s \in Streams |-> [at |-> "read", line |-> <<>>]]
    /\ queue' = [chunks |-> <<>>, rx |-> TRUE]

\* execute_command with return_to_tui: the child is started, or fails to start
ExecuteStreamed ==
    /\ pc = "execute"
    /\ request.return_to_tui
    /\ runs' = runs + 1
    /\ \E spawn_ok \in BOOLEAN :
          IF spawn_ok
          THEN /\ app' = BeforeStreaming(app, request)
               /\ Spawned
               /\ pc' = "loop"
               /\ result' = [tag |-> "None"]
          ELSE /\ app' = AfterStreaming(BeforeStreaming(app, request), request, Err)
               /\ result' = Err
               /\ pc' = "await_key"
               /\ UNCHANGED <<child, pipe, wrote, reader, queue>>
    /\ UNCHANGED <<last, request, term, visible, script, logged>>

\* execute_command without return_to_tui: the terminal is restored, the child
\* inherits the streams, and the loop ends when the child has ended
ExecuteInherited ==
    /\ pc = "execute"
    /\ ~request.return_to_tui
    /\ runs' = runs + 1
    /\ term' = restore_terminal(term)
    /\ \E spawn_ok \in BOOLEAN :
          IF spawn_ok
          THEN /\ app' = [app EXCEPT !.mode = SearchMode]
               /\ child' = [state |-> "running", status |-> None, piped |-> FALSE]
               /\ pc' = "inherit"
               /\ result' = [tag |-> "None"]
          ELSE /\ app' = record_usage([app EXCEPT !.mode = SearchMode], request.usage_key)
               /\ child' = child
               /\ pc' = "exited"
               /\ result' = Err
    /\ UNCHANGED <<last, request, pipe, wrote, reader, queue, visible, script, logged>>

\* Command::status has returned: the usage is recorded and run_loop returns
InheritedReturn ==
    /\ pc = "inherit"
    /\ child.state = "exited"
    /\ app' = record_usage(app, request.usage_key)
    /\ result' = Ok(ExitCode(child.status), FALSE)
    /\ pc' = "exited"
    /\ UNCHANGED <<last, request, child, pipe, wrote, reader, queue, term, runs,
                   visible, script, logged>>

-----------------------------------------------------------------------------
(* The child process and the reader threads of spawn_stream_reader *)

ChildWrite ==
    /\ child.state = "running"
    /\ child.piped
    /\ \E s \in Streams :
          /\ wrote[s] < OutputLines(request.command_line, s)
          /\ wrote' = [wrote EXCEPT ![s] = wrote[s] + 1]
          /\ pipe' = [pipe EXCEPT ![s] = Append(pipe[s], LineText(s, runs, wrote[s] + 1))]
    /\ UNCHANGED <<app, pc, last, request, result, child, reader, queue, term, runs,
                   visible, script, logged>>

ChildExit ==
    /\ child.state = "running"
    /\ \E status \in ExitStatuses : child' = [child EXCEPT !.state = "exited", !.status = status]
    /\ UNCHANGED <<app, pc, last, request, result, pipe, wrote, reader, queue, term, runs,
                   visible, script, logged>>

\* buffered.read_line: the next line of the pipe, or the end of the stream once
\* the child has ended and the pipe is empty
ReaderRead ==
    /\ \E s \in Streams :
          /\ reader[s].at = "read"
          /\ IF pipe[s] # <<>>
             THEN /\ reader' = [reader EXCEPT ![s] = [at |-> "send", line |-> Head(pipe[s])]]
                  /\ pipe' = [pipe EXCEPT ![s] = Tail(pipe[s])]
             ELSE /\ child.state # "running"
                  /\ reader' = [reader EXCEPT ![s] = [at |-> "done", line |-> <<>>]]
                  /\ pipe' = pipe
    /\ UNCHANGED <<app, pc, last, request, result, child, wrote, queue, term, runs,
                   visible, script, logged>>

\* tx.send(StreamChunk { kind, text }): the queue after the send of `line` by the
\* reader of stream s
Sent(chunks, s, line) == Append(chunks, [kind |-> s, text |-> line])

\* the send fails, and the reader ends, once the receiver has been dropped
ReaderSend ==
    /\ \E s \in Streams :
          /\ reader[s].at = "send"
          /\ IF queue.rx
             THEN /\ queue' = [queue EXCEPT !.chunks = Sent(queue.chunks, s, reader[s].line)]
                  /\ reader' = [reader EXCEPT ![s] = [at |-> "read", line |-> <<>>]]
             ELSE /\ queue' = queue
                  /\ reader' = [reader EXCEPT ![s] = [at |-> "done", line |-> <<>>]]
    /\ UNCHANGED <<app, pc, last, request, result, child, pipe, wrote, term, runs,
                   visible, script, logged>>

-----------------------------------------------------------------------------
(* run_shell_command_streaming: the loop of the control thread *)

\* a queue that hands out the chunk sent last
ReceivedLast(chunks) ==
    [chunk |-> chunks[Len(chunks)], rest |-> SubSeq(chunks, 1, Len(chunks) - 1)]

\* rx.try_recv / rx.recv_timeout giving a chunk: the chunk taken, and the rest
Received(chunks) == [chunk |-> Head(chunks), rest |-> Tail(chunks)]

\* app.push_line(chunk.kind, chunk.text) for the chunk received
PushChunk ==
    LET got == Received(queue.chunks)
    IN  /\ app' = push_line(app, got.chunk.kind, got.chunk.text)
        /\ queue' = [queue EXCEPT !.chunks = got.rest]

\* a kill that leaves the child running
KilledNot(c) == c

\* child.kill(); child.wait()
Killed(c) == IF c.state = "running" THEN [c EXCEPT !.state = "killed"] ELSE c

\* the top of the loop, should_interrupt_running_command: Esc was pressed and
\* the child is killed, or it was not
PollInterrupt ==
    /\ pc = "loop"
    /\ \E esc \in BOOLEAN :
          IF esc
          THEN child' = Killed(child) /\ pc' = "drain_interrupted"
          ELSE child' = child /\ pc' = "try_recv"
    /\ UNCHANGED <<app, last, request, result, pipe, wrote, reader, queue, term, runs,
                   visible, script, logged>>

\* while let Ok(chunk) = rx.try_recv(), and with no chunk there child.try_wait()
TryRecv ==
    /\ pc = "try_recv"
    /\ IF queue.chunks # <<>>
       THEN PushChunk /\ pc' = pc
       ELSE /\ pc' = IF child.state = "exited" THEN "drain_exited" ELSE "recv_timeout"
            /\ UNCHANGED <<app, queue>>
    /\ UNCHANGED <<last, request, result, child, pipe, wrote, reader, term, runs,
                   visible, script, logged>>

\* rx.recv_timeout(20 ms): a chunk, or the timeout, or the channel disconnected
RecvTimeout ==
    /\ pc = "recv_timeout"
    /\ IF queue.chunks # <<>>
       THEN PushChunk
       ELSE UNCHANGED <<app, queue>>
    /\ pc' = "loop"
    /\ UNCHANGED <<last, request, result, child, pipe, wrote, reader, term, runs,
                   visible, script, logged>>

\* the result with which run_shell_command_streaming returns from a drain
StreamResult(interrupted, status) ==
    IF interrupted THEN Ok(INTERRUPT_EXIT_CODE, TRUE) ELSE Ok(ExitCode(status), FALSE)

\* while let Ok(chunk) = rx.recv_timeout(10 ms): the chunks that are there are
\* taken; with none there, the wait times out (or finds the channel
\* disconnected), the function returns, its receiver is dropped, and
\* execute_command logs the result and records the usage
Drain ==
    /\ pc \in {"drain_interrupted", "drain_exited"}
    /\ IF queue.chunks # <<>>
       THEN PushChunk /\ UNCHANGED <<pc, result>>
       ELSE LET run_result == StreamResult(pc = "drain_interrupted", child.status)
            IN  /\ result' = run_result
                /\ app' = AfterStreaming(app, request, run_result)
                /\ queue' = NoChannel
                /\ pc' = "await_key"
    /\ UNCHANGED <<last, request, child, pipe, wrote, reader, term, runs, visible, script, logged>>

Running ==
    \/ ExecuteStreamed
    \/ ExecuteInherited
    \/ InheritedReturn
    \/ ChildWrite
    \/ ChildExit
    \/ ReaderRead
    \/ ReaderSend
    \/ PollInterrupt
    \/ TryRecv
    \/ RecvTimeout
    \/ Drain

Next == KeyEvent(RunKeys, MaxLog) \/ Running

Spec == Init /\ [][Next]_vars

\* the prompts: every key, up to the run request that execute_command is given
NextPrompt == KeyEvent(KeysNow, MaxPromptLog)

SpecPrompt == InitPrompt /\ [][NextPrompt]_vars

\* the prompts, and the runs that do not return to the UI
NextInherit ==
    \/ KeyEvent(KeysNow, MaxPromptLog)
    \/ ExecuteInherited
    \/ ChildExit
    \/ InheritedReturn

SpecInherit == InitPrompt /\ [][NextInherit]_vars

-----------------------------------------------------------------------------
(* The session log: lines are pushed, the log is scrolled, the panel resized *)

\* an operation of the control thread logs one more line; every caller of
\* push_line runs with the commands pane active
LogLine ==
    /\ pc = "await_key"
    /\ app.active_pane = "Commands"
    /\ logged + 2 < MAX_CHAT_LINES + MaxEvict
    /\ app' = push_info(app, <<"line ", ToString(logged + 1)>>)
    /\ logged' = logged + 1
    /\ UNCHANGED <<pc, last, request, result, child, pipe, wrote, reader, queue, term,
                   runs, visible, script>>

\* the user of this model scrolls while the log is short, and again once the
\* last line has been logged
ScrollEvent ==
    /\ Len(app.chat) < MaxLog \/ logged + 2 = MAX_CHAT_LINES + MaxEvict
    /\ KeyEvent(ScrollKeys, MAX_CHAT_LINES + 1)

\* draw_chat_panel in a terminal of another height: visible = max(height - 2, 1)
Resize ==
    /\ pc = "await_key"
    /\ Len(app.chat) < MaxLog
    /\ \E rows \in 1..MaxVisible : rows # visible /\ visible' = rows
    /\ UNCHANGED <<app, pc, last, request, result, child, pipe, wrote, reader, queue,
                   term, runs, script, logged>>

NextLog == LogLine \/ ScrollEvent \/ Resize

SpecLog == InitLog /\ [][NextLog]_vars

-----------------------------------------------------------------------------
(* A flag prompt answered by a user who types a word of the vocabulary *)

Upper(w) ==
    [i \in 1..Len(w) |->
        CASE w[i] = "y" -> "Y" [] w[i] = "e" -> "E" [] w[i] = "s" -> "S"
          [] w[i] = "n" -> "N" [] w[i] = "o" -> "O" [] w[i] = "t" -> "T"
          [] w[i] = "r" -> "R" [] w[i] = "u" -> "U" [] w[i] = "f" -> "F"
          [] w[i] = "a" -> "A" [] w[i] = "l" -> "L" [] OTHER -> w[i]]

Capitalized(w) == [i \in 1..Len(w) |-> IF i = 1 THEN Upper(w)[1] ELSE w[i]]

\* the words the user may type: the vocabulary in three spellings, or nothing
Words ==
    {<<>>} \cup UNION {{w, Upper(w), Capitalized(w)} : w \in YesWords \cup NoWords}

\* Enter on a command with a flag, or Down to the other command
FlagOpen ==
    /\ app.mode.tag = "Search"
    /\ KeyEvent({Key("Enter"), Key("Down")}, MaxPromptLog)

\* the user makes up their mind
ChooseWord ==
    /\ pc = "await_key"
    /\ app.mode.tag = "Prompt"
    /\ ~script.active
    /\ \E w \in Words : script' = [active |-> TRUE, word |-> w, typed |-> 0]
    /\ UNCHANGED <<app, pc, last, request, result, child, pipe, wrote, reader, queue,
                   term, runs, visible, logged>>

\* the next character of the word while the prompt is open, then Enter
TypeWord ==
    /\ pc = "await_key"
    /\ app.mode.tag = "Prompt"
    /\ script.active
    /\ script.typed <= Len(script.word)
    /\ \E order \in Orders(ParamNames(CommandAtHand)) :
          HandleKey(IF script.typed < Len(script.word)
                    THEN CharKey(script.word[script.typed + 1])
                    ELSE Key("Enter"),
                    order)
    /\ script' = [script EXCEPT !.typed = script.typed + 1]
    /\ UNCHANGED <<result, child, pipe, wrote, reader, queue, runs, visible, logged>>

NextFlag == FlagOpen \/ ChooseWord \/ TypeWord

SpecFlag == InitFlag /\ [][NextFlag]_vars

-----------------------------------------------------------------------------
(* execute_internal_command: the worker thread runs run_internal_task, the   *)
(* control thread waits for its result and reads no key meanwhile            *)

Reloaded(payload) == [tag |-> "Reloaded", payload |-> payload]
Inited(payload) == [tag |-> "Inited", payload |-> payload]
TaskError(err) == [tag |-> "Error", err |-> err]
\* the worker has ended without a result (RecvTimeoutError::Disconnected)
Disconnected == [tag |-> "Disconnected"]

\* run_internal_task: what the worker may send for the command, the catalog
\* being loaded as one of the payloads or not at all
run_internal_task(command, payloads) ==
    IF command.tag = "Reload"
    THEN {Reloaded(p) : p \in payloads} \cup {TaskError(<<"reload failed">>)}
    ELSE IF command.tag = "Init"
    THEN {Inited(p) : p \in payloads}
             \cup {TaskError(<<"reload failed">>), TaskError(<<"init failed">>)}
    ELSE {TaskError(<<"Unknown internal command">>)}

\* an end of the internal command that reports nothing
FailQuietly(a, task_result) == [a EXCEPT !.mode = SearchMode]

execute_internal_command(a, task_result) ==
    LET a1 == start_loading(refresh_filtered(
                  [a EXCEPT !.mode = SearchMode, !.query = <<>>, !.query_cursor = 0]))
        count == <<"Reloaded ", ToString(Len(task_result.payload.commands)), " commands">>
        a2 == IF task_result.tag = "Reloaded"
              THEN push_info(apply_reload_payload(a1, task_result.payload), count)
              ELSE IF task_result.tag = "Inited"
              THEN push_info(push_info(apply_reload_payload(a1, task_result.payload),
                                       <<"Wrote example config: ", "path">>),
                             count)
              ELSE IF task_result.tag = "Error"
              THEN push_error(a1, task_result.err)
              ELSE push_error(a1, <<"internal command worker disconnected unexpectedly">>)
    IN  stop_loading(a2)

ExecuteInternal(payloads) ==
    /\ pc = "execute_internal"
    /\ \E task_result \in run_internal_task(last.action.command, payloads) \cup {Disconnected} :
          app' = execute_internal_command(app, task_result)
    /\ pc' = "await_key"
    /\ UNCHANGED <<last, request, result, child, pipe, wrote, reader, queue, term, runs,
                   visible, script, logged>>

-----------------------------------------------------------------------------
(* Text typed as a whole: one key event for every character *)

RECURSIVE TypeChars(_, _)
TypeChars(a, text) ==
    IF text = <<>> THEN a
    ELSE TypeChars(on_key(a, CharKey(Head(text)), <<>>).app, Tail(text))

\* the user types one of the phrases into the empty query
TypeQuery(phrases) ==
    /\ pc = "await_key"
    /\ ~script.active
    /\ app.mode.tag = "Search"
    /\ app.query = <<>>
    /\ \E text \in phrases :
          /\ app' = TypeChars(app, text)
          /\ last' = [key |-> CharKey(text[Len(text)]), action |-> UiNone]
    /\ UNCHANGED <<pc, request, result, child, pipe, wrote, reader, queue, term, runs,
                   visible, script, logged>>

-----------------------------------------------------------------------------
(* The prompts of commands with several parameters, answered by a user who  *)
(* types a text and Enter, or cancels                                       *)

\* the texts typed into the prompt of a value, and into the one of a flag
ValueWords == {<<>>, <<"x">>, Needle(<<"b">>), <<"}", "}", "{", "{">>}
FlagWords == {<<"y">>, <<"n">>, <<"o", "n">>, <<"x">>}

TemplateQueries ==
    {<<"/">>, <<"/", "i", "n", "i", "t">>, <<"l", "i">>,
     <<"/", "I", "n", "i", "t", " ", "-", "f">>, <<"/", "x">>, <<"/", "r">>}

\* what a reload may load
TemplatePayloads ==
    {[commands |-> TemplateCatalog, provider_aliases |-> EmptyMap, ranking |-> DefaultRanking],
     [commands |-> <<CmdLink>>,
      provider_aliases |-> [alias \in {<<"c">>} |-> <<"c", "o", "n", "f", "i", "g">>],
      ranking |-> [usage_enabled |-> FALSE, usage_weight |-> 8000]],
     [commands |-> <<>>, provider_aliases |-> EmptyMap, ranking |-> DefaultRanking]}

TemplateKeysNow ==
    IF app.mode.tag = "Search" THEN {Key("Enter"), Key("Down"), Key("Esc")}
    ELSE IF app.mode.tag = "InternalPrompt"
    THEN {k \in {Key("Enter"), Key("Backspace"), CharKey("y"), CharKey("n"), CharKey("x")} :
             IsTyped(k) => Len(app.mode.input) < MaxInput}
    ELSE {}

TemplateKey == KeyEvent(TemplateKeysNow, MaxPromptLog)

ChooseText ==
    /\ pc = "await_key"
    /\ app.mode.tag = "Prompt"
    /\ ~script.active
    /\ Len(app.chat) < MaxPromptLog
    /\ \E w \in IF At(At(app.commands, app.mode.command_index).params,
                      At(app.mode.pending_params, app.mode.current_param)).kind = "Value"
                THEN ValueWords ELSE FlagWords :
          script' = [active |-> TRUE, word |-> w, typed |-> 0]
    /\ UNCHANGED <<app, pc, last, request, result, child, pipe, wrote, reader, queue,
                   term, runs, visible, logged>>

\* the next character of the text, then Enter; the text is over when the
\* prompt has moved on
TypeText ==
    /\ pc = "await_key"
    /\ app.mode.tag = "Prompt"
    /\ script.active
    /\ \E order \in Orders(ParamNames(CommandAtHand)) :
          HandleKey(IF script.typed < Len(script.word)
                    THEN CharKey(script.word[script.typed + 1])
                    ELSE Key("Enter"),
                    order)
    /\ script' = IF /\ script.typed < Len(script.word)
                    /\ app'.mode.tag = "Prompt"
                    /\ app'.mode.current_param = app.mode.current_param
                 THEN [script EXCEPT !.typed = script.typed + 1]
                 ELSE NoScript
    /\ UNCHANGED <<result, child, pipe, wrote, reader, queue, runs, visible, logged>>

\* Esc in a prompt, at any point
Cancel ==
    /\ pc = "await_key"
    /\ app.mode.tag # "Search"
    /\ HandleKey(Key("Esc"), <<>>)
    /\ script' = NoScript
    /\ UNCHANGED <<result, child, pipe, wrote, reader, queue, runs, visible, logged>>

NextTemplate ==
    \/ TemplateKey
    \/ TypeQuery(TemplateQueries)
    \/ ChooseText
    \/ TypeText
    \/ Cancel
    \/ ExecuteInternal(TemplatePayloads)

SpecTemplate == InitTemplate /\ [][NextTemplate]_vars

-----------------------------------------------------------------------------
(* The search: the query is edited key by key, or typed as a whole phrase,  *)
(* and the help is opened and closed                                         *)

SearchChars == {"é", "/", " "}

SearchPhrases ==
    {<<":", "a">>, <<":", "A", " ", "e">>, <<":", "x">>, <<":", " ", "s">>,
     <<":", "a", "r", "t", "i", "s", "a", "n">>,
     <<":", "c", "o", "n", "f", "i", "g", " ", "e">>,
     <<"/", "r", "e", "l", "o", "a", "d">>, <<"/", "i", "n", "i", "t", " ", "-", "f">>,
     <<"/", "x">>}

\* the keys that edit the query or move in it, and the ones that clear it,
\* open the help or move the selection; a longer query is only cleared
SearchKeysNow ==
    IF app.mode.tag # "Search" THEN {}
    ELSE IF Len(app.query) > MaxQuery
    THEN {Key("Esc"), CharKey("?"), Key("Down")}
    ELSE {CharKey(c) : c \in IF Len(app.query) < MaxQuery THEN SearchChars ELSE {}}
             \cup {Key("Backspace"), Key("Delete"), Key("Left"), Key("Right"), Key("Home"),
                   Key("End"), Key("Esc"), CharKey("?"), Key("Down")}

SearchKey == KeyEvent(SearchKeysNow, MAX_CHAT_LINES)

NextSearch ==
    \/ SearchKey
    \/ TypeQuery(SearchPhrases)

SpecSearch == InitSearch /\ [][NextSearch]_vars

-----------------------------------------------------------------------------
(* Properties of the runs (specification Spec) *)

StreamingPcs == {"loop", "try_recv", "recv_timeout", "drain_interrupted", "drain_exited"}

\* a line of the session log that a child has written: its text is a LineText
IsChildLine(line) == Len(line.text) = 5 /\ line.text[1] \in Streams

LineStream(line) == line.text[1]
LineRun(line) == line.text[3]
LineNo(line) == CHOOSE k \in 1..(MaxLines + 1) : ToString(k) = line.text[5]

\* the lines that a step appends to the session log (no line is evicted
\* below the cap)
Appended ==
    SubSeq(app'.chat, Len(app.chat) + 1, Len(app'.chat))

Usage(a, key) == IF key \in DOMAIN a.usage_counts THEN a.usage_counts[key] ELSE 0

\* the step with which run_shell_command_streaming returns from a drain
StreamReturns == pc \in {"drain_interrupted", "drain_exited"} /\ pc' = "await_key"

\* the step that ends a run whose child had started
RunEnds == StreamReturns \/ (pc = "inherit" /\ pc' = "exited")

\* C1: once Esc is observed in a streamed run, the child is not running any
\* more; a chunk leaves the queue only by being appended to the session log;
\* the run returns only with the queue empty, with exit code 130 and
\* interrupted set, and the log then ends with the line "Interrupted by user
\* (Escape)" instead of an exit code; and a line of a child is appended only
\* by the streaming loop of the very run that wrote it, never after its return.
C1_Interrupt ==
    [][/\ pc = "drain_interrupted" =>
            /\ child.state # "running"
            /\ pc' \in {"drain_interrupted", "await_key"}
            /\ pc' = "await_key" =>
                  /\ queue.chunks = <<>>
                  /\ result' = Ok(INTERRUPT_EXIT_CODE, TRUE)
                  /\ Appended = <<[kind |-> "Info",
                                   text |-> <<"Interrupted by user (Escape)">>]>>
            /\ (pc' = pc /\ queue.chunks # <<>> /\ Len(queue'.chunks) < Len(queue.chunks)) =>
                  Appended = <<[kind |-> Head(queue.chunks).kind,
                                text |-> Head(queue.chunks).text]>>
       /\ \A i \in 1..Len(Appended) :
             IsChildLine(Appended[i]) =>
                 pc \in StreamingPcs /\ LineRun(Appended[i]) = ToString(runs)
      ]_vars

\* an interrupted run has returned with a line of its child in the log, while
\* a reader of it still holds a line, and that line is not in the log
C1_Witness ==
    /\ pc = "await_key"
    /\ result = Ok(INTERRUPT_EXIT_CODE, TRUE)
    /\ \E i \in 1..Len(app.chat) : IsChildLine(app.chat[i])
    /\ \E s \in Streams :
          /\ reader[s].at = "send"
          /\ \A i \in 1..Len(app.chat) : app.chat[i].text # reader[s].line

\* C2: no step decreases a usage counter or removes one; the step that ends a
\* run whose child had started (streamed with any exit code or interrupted, or
\* inherited) adds exactly one to the counter under "{provider}::{name}" of
\* the command that ran and changes no other counter; and no counter changes
\* while that run is in progress.
C2_UsageRecorded ==
    [][/\ \A k \in DOMAIN app.usage_counts :
             k \in DOMAIN app'.usage_counts /\ app'.usage_counts[k] >= app.usage_counts[k]
       /\ RunEnds =>
             /\ \E c \in 0..(Len(app.commands) - 1) :
                   /\ At(app.commands, c).name = request.display_name
                   /\ request.usage_key =
                          <<At(app.commands, c).source, "::">> \o At(app.commands, c).name
             /\ Usage(app', request.usage_key) = Usage(app, request.usage_key) + 1
             /\ \A k \in DOMAIN app'.usage_counts :
                   k # request.usage_key => Usage(app', k) = Usage(app, k)
       /\ (pc \in StreamingPcs \cup {"inherit"} /\ ~RunEnds) =>
             app'.usage_counts = app.usage_counts
      ]_vars

\* a run that the user interrupted has been recorded on top of the counter
\* that was loaded from the usage store
C2_Witness ==
    /\ pc = "await_key"
    /\ result = Ok(INTERRUPT_EXIT_CODE, TRUE)
    /\ Usage(app, request.usage_key) = MaxUsage + 1

\* C3: the step in which the shell fails to start leaves the mode Search and
\* every usage counter as it was, and in a streamed run appends an error line
\* as the last line of the log and goes back to waiting for a key.
C3_SpawnFailure ==
    [][(pc = "execute" /\ result' = Err) =>
           /\ app'.mode = SearchMode
           /\ request.return_to_tui =>
                 /\ pc' = "await_key"
                 /\ app'.chat[Len(app'.chat)].kind = "Stderr"
                 /\ app'.chat[Len(app'.chat)].text
                        = <<"execution failed: failed to start shell command">>
           /\ app'.usage_counts = app.usage_counts
      ]_vars

\* C4: when the streamed run returns because the child has exited, every line
\* the child wrote to either stream is in the session log, and the result is
\* the exit code of the child's status, not interrupted.
C4_ExitDrain ==
    [][(pc = "drain_exited" /\ pc' = "await_key") =>
           /\ \A s \in Streams : \A k \in 1..wrote[s] :
                 \E i \in 1..Len(app'.chat) :
                     app'.chat[i] = [kind |-> s, text |-> LineText(s, runs, k)]
           /\ result' = Ok(ExitCode(child.status), FALSE)
      ]_vars

\* C5: in the session log every line of a child carries the kind of the stream
\* it was written to, and of two lines of the same run and stream the one
\* written earlier comes first, so that no line is there twice; and while the
\* run is in progress no line is lost either: the lines in the log, in the
\* queue, in the hand of the reader and in the pipe are, stream by stream,
\* the lines written, in the order written.
C5_StreamOrder ==
    /\ \A i \in 1..Len(app.chat) :
          IsChildLine(app.chat[i]) => app.chat[i].kind = LineStream(app.chat[i])
    /\ \A i, j \in 1..Len(app.chat) :
          (/\ i < j
           /\ IsChildLine(app.chat[i]) /\ IsChildLine(app.chat[j])
           /\ LineStream(app.chat[i]) = LineStream(app.chat[j])
           /\ LineRun(app.chat[i]) = LineRun(app.chat[j]))
          => LineNo(app.chat[i]) < LineNo(app.chat[j])
    /\ pc \in StreamingPcs =>
          \A s \in Streams :
              LET ofRun(l) == IsChildLine(l) /\ l.kind = s /\ LineRun(l) = ToString(runs)
                  inlog == SelectSeq(app.chat, ofRun)
                  queued == SelectSeq(queue.chunks, LAMBDA c : c.kind = s)
                  held == IF reader[s].at = "send" THEN <<reader[s].line>> ELSE <<>>
              IN  [i \in 1..Len(inlog) |-> inlog[i].text]
                      \o [i \in 1..Len(queued) |-> queued[i].text] \o held \o pipe[s]
                  = [k \in 1..wrote[s] |-> LineText(s, runs, k)]

\* both lines of the standard output are in the log with the line of the
\* standard error between them
C5_Witness ==
    \E i \in 1..Len(app.chat) :
        /\ i + 2 <= Len(app.chat)
        /\ app.chat[i] = [kind |-> "Stdout", text |-> LineText("Stdout", runs, 1)]
        /\ app.chat[i + 1] = [kind |-> "Stderr", text |-> LineText("Stderr", runs, 1)]
        /\ app.chat[i + 2] = [kind |-> "Stdout", text |-> LineText("Stdout", runs, 2)]

-----------------------------------------------------------------------------
(* Properties of the session log (specification SpecLog) *)

\* the n-th line pushed to the session log since the start of the program
NthLine(n) ==
    IF n = 1 THEN [kind |-> "Info", text |-> <<"Loaded ", "1", " commands">>]
    ELSE IF n = 2
    THEN [kind |-> "Info", text |-> <<"Config: none (providers only or defaults)">>]
    ELSE [kind |-> "Info", text |-> <<"line ", ToString(n - 2)>>]

\* C6: the session log never holds more than 600 lines, and after n lines
\* have been pushed it holds exactly the last min(n, 600) of them, in the
\* order in which they were pushed.
C6_LogCap ==
    LET n == logged + 2
        len == Len(app.chat)
    IN  /\ len <= 600
        /\ len = IF n < 600 THEN n ELSE 600
        /\ \A i \in 1..len : app.chat[i] = NthLine(n - len + i)

\* 601 lines have been pushed: the log holds 600, from the second to the last
C6_Witness ==
    /\ logged + 2 = 601
    /\ Len(app.chat) = 600
    /\ app.chat[1] = NthLine(2)
    /\ app.chat[600] = NthLine(601)

\* C7: the scroll offset of the session log is at least 0 and at most the
\* number of lines of the log that do not fit into the visible rows
\* (len - visible, or 0 when every line fits).
C7_ScrollRange ==
    /\ app.session_scroll >= 0
    /\ app.session_scroll <=
          IF Len(app.chat) > visible THEN Len(app.chat) - visible ELSE 0

-----------------------------------------------------------------------------
(* Properties of the prompts (specifications SpecPrompt and SpecFlag) *)

\* the parameter that the open prompt asks for
CurrentParam(a) ==
    At(At(a.commands, a.mode.command_index).params,
       At(a.mode.pending_params, a.mode.current_param))

IsBlank(text) == \A i \in 1..Len(text) : text[i] = " "

\* the values a user of the model can enter: typed text without the blanks
\* around it, and not empty
EnteredValues ==
    {t \in UNION {[1..n -> TypedChars] : n \in 1..MaxInput} : t[1] # " " /\ t[Len(t)] # " "}

\* C8: Enter on a blank input in the prompt of a required value without
\* default leaves the prompt as it is (same parameter, same values), returns
\* no action and logs "'<name>' is required"; and a run request for the
\* command with the required value `e` carries a command line in which a
\* value that is not empty stands for `e`.
C8_RequiredValue ==
    [][/\ (/\ app.mode.tag = "Prompt"
           /\ CurrentParam(app).kind = "Value"
           /\ CurrentParam(app).required
           /\ ~CurrentParam(app).default_value.some
           /\ last'.key = Key("Enter")
           /\ IsBlank(app.mode.input))
          => /\ app'.mode = app.mode
             /\ last'.action = UiNone
             /\ pc' = "await_key"
             /\ Appended = <<[kind |-> "Info",
                              text |-> <<"'">> \o CurrentParam(app).name
                                          \o <<"' is required">>]>>
       /\ (last'.action.tag = "Run" /\ last'.action.request.display_name = CmdDeploy.name)
          => \E v \in EnteredValues, f \in {<<>>, <<"-", "-", "f">>} :
                 last'.action.request.command_line = <<"d", " ">> \o v \o <<" ">> \o f
      ]_vars

\* Enter on a blank that is not empty has been turned away
C8_Witness ==
    /\ app.mode.tag = "Prompt"
    /\ CurrentParam(app).required
    /\ app.mode.input = <<" ">>
    /\ last.key = Key("Enter")
    /\ app.chat[Len(app.chat)].text = <<"'", "e", "' is required">>

\* C9: Enter on an empty input in the prompt of a value that is not required
\* and has no default moves on: to the next pending parameter, or, from the
\* last one, to the run request whose command line is the template with the
\* placeholder of the parameter replaced by the empty string.
C9_OptionalValue ==
    [][(/\ app.mode.tag = "Prompt"
        /\ CurrentParam(app).kind = "Value"
        /\ ~CurrentParam(app).required
        /\ ~CurrentParam(app).default_value.some
        /\ last'.key = Key("Enter")
        /\ app.mode.input = <<>>)
       => IF app.mode.current_param + 1 < Len(app.mode.pending_params)
          THEN /\ app'.mode.tag = "Prompt"
               /\ app'.mode.current_param = app.mode.current_param + 1
          ELSE /\ last'.action.tag = "Run"
               /\ last'.action.request.command_line
                      = Replace(At(app.commands, app.mode.command_index).template,
                                Needle(CurrentParam(app).name), <<>>)
      ]_vars

\* C10: when a word of the vocabulary, in any case, has been typed character
\* by character into the prompt of a flag and, with the prompt still open,
\* confirmed with Enter, the command is run, with the token of the flag in
\* the place of the placeholder for y, yes, true, 1, on, with nothing there
\* for n, no, false, 0, off, and according to the default for no input.
C10_FlagVocabulary ==
    script.active =>
        /\ script.typed > Len(script.word) => pc = "execute"
        /\ pc = "execute" =>
              \E c \in {FlagCatalog[i] : i \in 1..Len(FlagCatalog)} :
                  LET flag == c.params[1]
                      word == ToAsciiLowercase(script.word)
                      on == IF word = <<>> THEN flag.default_flag.v ELSE word \in YesWords
                  IN  /\ c.name = request.display_name
                      /\ request.command_line
                             = Replace(c.template, Needle(flag.name),
                                       IF on THEN flag_token(flag) ELSE <<>>)

-----------------------------------------------------------------------------
(* Properties of the templates (specification SpecTemplate) *)

EndsWith(s, suffix) ==
    Len(suffix) <= Len(s) /\ SubSeq(s, Len(s) - Len(suffix) + 1, Len(s)) = suffix

\* a parameter of the command has no value among the collected ones
Unfilled(command, values) ==
    \E p \in 1..Len(command.params) : command.params[p].name \notin DOMAIN values

\* a collected value has a brace in it
Braced(values) ==
    \E k \in DOMAIN values : \E i \in 1..Len(values[k]) : values[k][i] \in {"{", "}"}

\* the step turns the command of the prompt away for unresolved placeholders
Refused ==
    /\ last'.action = UiNone
    /\ pc' = "await_key"
    /\ Appended = <<[kind |-> "Info",
                     text |-> <<"Command '">> \o At(app.commands, app.mode.command_index).name
                                 \o <<"' still has unresolved placeholders">>]>>

C12_Cancel ==
    [][(/\ pc = "await_key"
        /\ app.mode.tag \in {"Prompt", "InternalPrompt"}
        /\ last'.key = Key("Esc")
        /\ app' # app)
       => /\ app'.mode = SearchMode
          /\ last'.action = UiNone
          /\ pc' = "await_key"
          /\ Len(app'.chat) = Len(app.chat) + 1
          /\ app'.chat[Len(app'.chat)] =
                 [kind |-> "Info",
                  text |-> IF app.mode.tag = "Prompt" THEN <<"Parameter entry canceled">>
                           ELSE <<"Internal command canceled">>]
          /\ app'.commands = app.commands
          /\ app'.query = app.query
          /\ app'.query_cursor = app.query_cursor
          /\ app'.filtered = app.filtered
          /\ app'.usage_counts = app.usage_counts
      ]_vars

\* a prompt of a parameter and then the prompt of /init have been canceled,
\* and the query /init is still there
C12_Witness ==
    /\ app.mode = SearchMode
    /\ last.key = Key("Esc")
    /\ app.query = <<"/", "i", "n", "i", "t">>
    /\ Len(app.chat) = 4
    /\ app.chat[3].text = <<"Parameter entry canceled">>
    /\ app.chat[4].text = <<"Internal command canceled">>

\* the step resolves the last pending parameter of the open prompt
LastResolves ==
    /\ pc = "await_key"
    /\ app.mode.tag = "Prompt"
    /\ app.mode.current_param + 1 = Len(app.mode.pending_params)
    /\ app'.mode.tag = "Search"
    /\ last'.key # Key("Esc")
    /\ app' # app

\* the names of the parameters with a value once the open prompt has taken
\* its input: the ones collected before, and the one asked for unless it is
\* a value left empty
WithValue ==
    DOMAIN app.mode.values
        \cup (IF CurrentParam(app).kind = "Value" /\ IsBlank(app.mode.input) THEN {}
              ELSE {CurrentParam(app).name})

\* C13: when the last pending parameter resolves and a placeholder of the
\* template is left without a value, no run request is returned, a line is
\* appended to the session log and the mode is Search; and when every
\* placeholder of the template has its value, the run request is returned.
C13_Unresolved ==
    [][LastResolves =>
          IF Unfilled(At(app.commands, app.mode.command_index),
                      [k \in WithValue |-> <<>>])
          THEN /\ last'.action = UiNone
               /\ Len(app'.chat) = Len(app.chat) + 1
               /\ app'.mode = SearchMode
          ELSE last'.action.tag = "Run"
      ]_vars

\* the answer that the text stands for in the prompt of a flag, if any
FlagAnswer(text, default_flag) ==
    IF text = <<>> THEN Some(default_flag.some /\ default_flag.v)
    ELSE IF text \in YesWords THEN Some(TRUE)
    ELSE IF text \in NoWords THEN Some(FALSE)
    ELSE None

\* the key of the step resolves the parameter of the open prompt: Enter on a
\* value that may be taken, a key that answers a flag, or Enter on an input
\* that answers it
Resolving ==
    /\ pc = "await_key"
    /\ app.mode.tag = "Prompt"
    /\ app' # app
    /\ IF CurrentParam(app).kind = "Value"
       THEN /\ last'.key = Key("Enter")
            /\ ~(CurrentParam(app).required /\ IsBlank(app.mode.input))
       ELSE \/ last'.key \in {CharKey("y"), CharKey("n")}
            \/ /\ last'.key = Key("Enter")
               /\ FlagAnswer(app.mode.input, CurrentParam(app).default_flag).some

\* the value that the resolving key gives to the parameter of the open prompt
ResolvedValue ==
    LET param == CurrentParam(app)
        token == IF param.name[1] = "-" THEN param.name ELSE <<"-", "-">> \o param.name
        on == IF last'.key = Key("Enter")
              THEN FlagAnswer(app.mode.input, param.default_flag).v
              ELSE last'.key = CharKey("y")
    IN  IF param.kind = "Value" THEN app.mode.input
        ELSE IF on THEN token ELSE <<>>

\* the template with every placeholder of a key of `values` replaced by the
\* value of the key, in one pass from left to right
RECURSIVE Substitute(_, _)
Substitute(template, values) ==
    IF template = <<>> THEN <<>>
    ELSE LET hits == {k \in DOMAIN values : StartsWith(template, Needle(k))}
             key == CHOOSE k \in hits : TRUE
         IN  IF hits = {} THEN <<Head(template)>> \o Substitute(Tail(template), values)
             ELSE values[key]
                      \o Substitute(SubSeq(template, Len(Needle(key)) + 1, Len(template)),
                                    values)

\* C14: the step in which the last pending parameter resolves leaves the mode
\* Search, and the run request it returns carries the template of the
\* command with every occurrence of the placeholder of each collected
\* parameter replaced by the value collected for it, as it was entered.
C14_LiteralValues ==
    [][(Resolving /\ app.mode.current_param + 1 = Len(app.mode.pending_params))
       => /\ app'.mode = SearchMode
          /\ last'.action.tag = "Run" =>
                last'.action.request.command_line
                    = Substitute(At(app.commands, app.mode.command_index).template,
                                 [k \in WithValue |->
                                     IF k = CurrentParam(app).name THEN ResolvedValue
                                     ELSE app.mode.values[k]])
      ]_vars

-----------------------------------------------------------------------------
(* Properties of the search (specification SpecSearch) *)

\* the selector of a query `:sel rest`, in lower case, and its rest
SelectorOf(query) ==
    ToAsciiLowercase(SubSeq(Tail(query), 1, FirstWhitespace(Tail(query))))

RestOf(query) ==
    TrimStart(SubSeq(Tail(query), FirstWhitespace(Tail(query)) + 1, Len(query) - 1))

HasSelector(query) ==
    /\ query # <<>>
    /\ Head(query) = ":"
    /\ SelectorOf(query) # <<>>

\* the provider that a selector names: the one of the alias, otherwise the
\* provider of this name when the catalog has it and no alias names it
ProviderOf(a, sel) ==
    IF sel \in DOMAIN a.provider_aliases THEN Some(a.provider_aliases[sel])
    ELSE IF /\ \E i \in 1..Len(a.commands) : Spelled(a.commands[i].source) = sel
            /\ \A alias \in DOMAIN a.provider_aliases : a.provider_aliases[alias] # sel
    THEN Some(sel)
    ELSE None

OfProvider(a, provider) ==
    {i \in 0..(Len(a.commands) - 1) : Spelled(At(a.commands, i).source) = provider}

\* C15: when a key makes the query a selector query `:sel rest`, the result
\* has only commands of the one provider that sel names through the alias map,
\* or by its own name while no alias names that provider (all of them, once
\* each, when the rest is empty); when sel names no provider the result is
\* empty, no line is logged, the mode stays and nothing is requested
C15_ProviderSelector ==
    [][(app'.query # app.query /\ HasSelector(app'.query)) =>
        LET provider == ProviderOf(app', SelectorOf(app'.query))
            found == {app'.filtered[k] : k \in 1..Len(app'.filtered)}
        IN  IF provider.some
            THEN /\ \A item \in found :
                       /\ item.tag = "Command"
                       /\ item.index \in OfProvider(app', provider.v)
                 /\ RestOf(app'.query) = <<>> =>
                       /\ Len(app'.filtered) = Cardinality(OfProvider(app', provider.v))
                       /\ {item.index : item \in found} = OfProvider(app', provider.v)
            ELSE /\ app'.filtered = <<>>
                 /\ app'.chat = app.chat
                 /\ app'.mode = app.mode
                 /\ last'.action = UiNone]_vars

\* `:config e` while config is the alias of artisan: the command of artisan
C15_Witness ==
    /\ app.query = <<":", "c", "o", "n", "f", "i", "g", " ", "e">>
    /\ <<"c", "o", "n", "f", "i", "g">> \in DOMAIN app.provider_aliases
    /\ app.filtered = <<[tag |-> "Command", index |-> 0]>>

\* `:artisan` while artisan has an alias: nothing
C15_Aliased ==
    /\ app.query = <<":", "a", "r", "t", "i", "s", "a", "n">>
    /\ app.provider_aliases # EmptyMap
    /\ app.filtered = <<>>

\* C16: whenever the app awaits a key in Search mode, the result is the one
\* that refresh_filtered computes from the query, the catalog, the alias map
\* and the usage counts of this state
C16_ResultIsRecomputed ==
    (pc = "await_key" /\ app.mode.tag = "Search") =>
        app.filtered = refresh_filtered(app).filtered

\* the characters of s without the k-th one (k from 1)
Without(s, k) == SubSeq(s, 1, k - 1) \o SubSeq(s, k + 1, Len(s))

\* the query and its cursor after one key of the search
Edited(key) ==
    LET a == on_key(app, key, <<>>).app
    IN  <<a.query, a.query_cursor>>

\* the cursor c is between 0 and the number of characters of the query; the
\* key of each of the characters puts it after the first c characters and
\* moves the cursor to c + 1, Backspace takes the character before the cursor
\* and moves the cursor back, Delete takes the character at the cursor and
\* leaves the cursor, at cursor 0 or at the end of the query they change
\* nothing, and the cursor keys leave the query and keep the cursor inside
EditsByCodepoint(characters) ==
    LET q == app.query
        c == app.query_cursor
    IN  /\ c \in 0..Len(q)
        /\ \A ch \in characters :
               Edited(CharKey(ch)) =
                   <<SubSeq(q, 1, c) \o <<ch>> \o SubSeq(q, c + 1, Len(q)), c + 1>>
        /\ Edited(Key("Backspace")) = IF c > 0 THEN <<Without(q, c), c - 1>> ELSE <<q, c>>
        /\ Edited(Key("Delete")) = IF c < Len(q) THEN <<Without(q, c + 1), c>> ELSE <<q, c>>
        /\ \A code \in {"Left", "Right", "Home", "End"} :
               /\ Edited(Key(code))[1] = q
               /\ Edited(Key(code))[2] \in 0..Len(q)

\* C17 as stated: in Search mode the editing is by codepoints for the key of
\* every character, the question mark among them
C17_EveryCharacter ==
    (pc = "await_key" /\ app.mode.tag = "Search" /\ ~app.show_help) =>
        EditsByCodepoint(SearchChars \cup {"s", "?"})

\* C17: in Search mode the editing is by codepoints for the key of every
\* character but the question mark, the key that opens the help
C17_CodepointEditing ==
    (pc = "await_key" /\ app.mode.tag = "Search" /\ ~app.show_help) =>
        /\ EditsByCodepoint(SearchChars \cup {"s"})
        /\ Edited(CharKey("?")) = <<app.query, app.query_cursor>>

\* the character of two bytes has been put before the one of the query, with
\* the cursor at 0, and the cursor is behind it
C17_Witness ==
    /\ app.mode.tag = "Search"
    /\ last.key = CharKey("é")
    /\ app.query = <<"é", "/">>
    /\ app.query_cursor = 1

\* C18: in Search mode Esc with a query clears it, puts the cursor at 0,
\* recomputes the result (all commands, in the order of the catalog, as no
\* command has been used) with the first one selected, and requests nothing;
\* Esc with the empty query requests to quit
C18_CancelKey ==
    (pc = "await_key" /\ app.mode.tag = "Search" /\ ~app.show_help) =>
        LET r == on_key(app, Key("Esc"), <<>>)
        IN  IF app.query # <<>>
            THEN /\ r.action = UiNone
                 /\ r.app.query = <<>>
                 /\ r.app.query_cursor = 0
                 /\ r.app.filtered =
                        [k \in 1..Len(app.commands) |-> [tag |-> "Command", index |-> k - 1]]
                 /\ r.app.selected = 0
                 /\ r.app.mode = app.mode
            ELSE r.action = UiQuit

\* Esc with the empty query has ended the loop
C18_Witness ==
    /\ pc = "quit"
    /\ last = [key |-> Key("Esc"), action |-> UiQuit]
    /\ app.query = <<>>

\* Esc has cleared a query
C18_Cleared ==
    /\ pc = "await_key"
    /\ last = [key |-> Key("Esc"), action |-> UiNone]
    /\ ~app.show_help
    /\ app.query = <<>>

\* the keys that a user may press while the help is shown
HelpKeys ==
    {Key(code) : code \in {"Esc", "Enter", "Tab", "Backspace", "Delete", "Left", "Right",
                           "Home", "End", "Up", "Down", "PageUp", "PageDown"}}
        \cup {CharKey(ch) : ch \in SearchChars \cup {"s", "?"}}
        \cup {AltKey("Enter"), CtrlKey("j"), CtrlKey("k"), CtrlKey("c")}

\* C19: while the help is shown, every key closes it; Esc and the question
\* mark do nothing else, and every other key has the effect and the request
\* that it has in the same state without the help
C19_HelpOverlay ==
    (pc = "await_key" /\ app.mode.tag = "Search" /\ app.show_help) =>
        \A key \in HelpKeys, order \in Orders(ParamNames(CommandAtHand)) :
            LET closed == [app EXCEPT !.show_help = FALSE]
                r == on_key(app, key, order)
            IN  /\ ~r.app.show_help
                /\ IF key \in {Key("Esc"), CharKey("?")}
                   THEN r = [app |-> closed, action |-> UiNone]
                   ELSE r = on_search_key(closed, key, order)

\* the help is shown over a query with the second of its results selected
C19_Witness ==
    /\ pc = "await_key"
    /\ app.show_help
    /\ app.query = <<":", "c", "o", "n", "f", "i", "g", " ", "e">>
    /\ app.selected = 1

\* the result has only internal commands of the fixed list
OnlyInternal(a) ==
    \A k \in 1..Len(a.filtered) :
        /\ a.filtered[k].tag = "Internal"
        /\ a.filtered[k].index \in 0..(Len(InternalCommands) - 1)

\* the result has only commands of the catalog
OnlyCatalog(a) ==
    \A k \in 1..Len(a.filtered) :
        /\ a.filtered[k].tag = "Command"
        /\ a.filtered[k].index \in 0..(Len(a.commands) - 1)

\* the first character of the query that is no blank, or the blank
FirstVisible(query) ==
    IF \A i \in 1..Len(query) : query[i] = " " THEN " "
    ELSE query[CHOOSE i \in 1..Len(query) :
                   query[i] # " " /\ \A j \in 1..(i - 1) : query[j] = " "]

\* C20 as stated: the result of a query whose first character is the slash
\* has only internal commands, the result of every other query has only
\* commands of the catalog
C20_FirstCharacter ==
    (pc = "await_key" /\ app.mode.tag = "Search") =>
        IF app.query # <<>> /\ Head(app.query) = "/" THEN OnlyInternal(app)
        ELSE OnlyCatalog(app)

\* C20: the result of a query whose first character after the blanks at its
\* start is the slash has only internal commands (all of them when nothing
\* follows the slash), the result of every other query has only commands of
\* the catalog
C20_InternalQueries ==
    (pc = "await_key" /\ app.mode.tag = "Search") =>
        IF FirstVisible(app.query) = "/"
        THEN /\ OnlyInternal(app)
             /\ (\A i \in 1..Len(app.query) : app.query[i] \in {" ", "/"}) =>
                    Len(app.filtered) = Len(InternalCommands)
        ELSE OnlyCatalog(app)

\* the query of a blank and the slash shows the internal commands
C20_Witness ==
    /\ pc = "await_key"
    /\ app.query = <<" ", "/">>
    /\ Len(app.filtered) = Len(InternalCommands)
    /\ OnlyInternal(app)

-----------------------------------------------------------------------------
(* The ANSI interpreter: render_chat_line, parse_ansi_spans and             *)
(* apply_sgr_sequence.  The escape character is the one-character string    *)
(* "ESC"; a Style is the foreground, the background and the two sets of     *)
(* modifiers of ratatui's Style                                              *)

Digits == <<"0", "1", "2", "3", "4", "5", "6", "7", "8", "9">>

IsAsciiDigit(c) == \E i \in 1..Len(Digits) : Digits[i] = c

DigitValue(c) == (CHOOSE i \in 1..Len(Digits) : Digits[i] = c) - 1

\* part.parse::<u16>(): the number of a nonempty text of digits that fits
\* sixteen bits
RECURSIVE Decimal(_, _)
Decimal(part, value) ==
    IF part = <<>> THEN value
    ELSE Decimal(Tail(part), value * 10 + DigitValue(Head(part)))

ParseU16(part) ==
    IF part = <<>> \/ \E i \in 1..Len(part) : ~IsAsciiDigit(part[i]) THEN None
    ELSE IF Len(part) > 5 \/ Decimal(part, 0) > 65535 THEN None
    ELSE Some(Decimal(part, 0))

\* seq.split(';')
RECURSIVE SplitParams(_, _)
SplitParams(seq, part) ==
    IF seq = <<>> THEN <<part>>
    ELSE IF Head(seq) = ";" THEN <<part>> \o SplitParams(Tail(seq), <<>>)
    ELSE SplitParams(Tail(seq), Append(part, Head(seq)))

\* filter_map(|part| part.parse::<u16>().ok())
RECURSIVE ParsedParams(_)
ParsedParams(parts) ==
    IF parts = <<>> THEN <<>>
    ELSE (IF ParseU16(Head(parts)).some THEN <<ParseU16(Head(parts)).v>> ELSE <<>>)
             \o ParsedParams(Tail(parts))

DefaultStyle(color) == [fg |-> Some(color), bg |-> None, add |-> {}, sub |-> {}]

add_modifier(style, modifier) ==
    [style EXCEPT !.sub = style.sub \ modifier, !.add = style.add \cup modifier]

remove_modifier(style, modifier) ==
    [style EXCEPT !.add = style.add \ modifier, !.sub = style.sub \cup modifier]

map_ansi_color(code) ==
    CASE code = 30 -> "Black" [] code = 31 -> "Red" [] code = 32 -> "Green"
      [] code = 33 -> "Yellow" [] code = 34 -> "Blue" [] code = 35 -> "Magenta"
      [] code = 36 -> "Cyan" [] code = 37 -> "Gray" [] code = 90 -> "DarkGray"
      [] code = 91 -> "LightRed" [] code = 92 -> "LightGreen" [] code = 93 -> "LightYellow"
      [] code = 94 -> "LightBlue" [] code = 95 -> "LightMagenta" [] code = 96 -> "LightCyan"
      [] code = 97 -> "White" [] OTHER -> "Reset"

Indexed(n) == <<"Indexed", Min(n, 255)>>
Rgb(r, g, b) == <<"Rgb", Min(r, 255), Min(g, 255), Min(b, 255)>>

\* one turn of the loop of apply_sgr_sequence: the style after params[i], and
\* the index of the parameter handled last
SgrStep(params, i, style, default_style, default_fg) ==
    LET code == At(params, i)
        color == IF i + 2 < Len(params) /\ At(params, i + 1) = 5
                 THEN Some(Indexed(At(params, i + 2)))
                 ELSE IF i + 4 < Len(params) /\ At(params, i + 1) = 2
                 THEN Some(Rgb(At(params, i + 2), At(params, i + 3), At(params, i + 4)))
                 ELSE None
    IN  CASE code = 0 -> [style |-> default_style, i |-> i]
          [] code = 1 -> [style |-> add_modifier(style, {"BOLD"}), i |-> i]
          [] code = 3 -> [style |-> add_modifier(style, {"ITALIC"}), i |-> i]
          [] code = 4 -> [style |-> add_modifier(style, {"UNDERLINED"}), i |-> i]
          [] code = 22 -> [style |-> remove_modifier(style, {"BOLD", "DIM"}), i |-> i]
          [] code = 23 -> [style |-> remove_modifier(style, {"ITALIC"}), i |-> i]
          [] code = 24 -> [style |-> remove_modifier(style, {"UNDERLINED"}), i |-> i]
          [] code \in 30..37 \cup 90..97 ->
                [style |-> [style EXCEPT !.fg = Some(map_ansi_color(code))], i |-> i]
          [] code = 39 -> [style |-> [style EXCEPT !.fg = Some(default_fg)], i |-> i]
          [] code \in 40..47 \cup 100..107 ->
                [style |-> [style EXCEPT !.bg = Some(map_ansi_color(code - 10))], i |-> i]
          [] code = 49 -> [style |-> [style EXCEPT !.bg = Some("Reset")], i |-> i]
          [] code \in {38, 48} ->
                IF ~color.some THEN [style |-> style, i |-> i]
                ELSE [style |-> IF code = 38 THEN [style EXCEPT !.fg = color]
                                ELSE [style EXCEPT !.bg = color],
                      i |-> IF At(params, i + 1) = 5 THEN i + 2 ELSE i + 4]
          [] OTHER -> [style |-> style, i |-> i]

RECURSIVE SgrLoop(_, _, _, _, _)
SgrLoop(params, i, style, default_style, default_fg) ==
    IF i >= Len(params) THEN style
    ELSE SgrLoop(params, SgrStep(params, i, style, default_style, default_fg).i + 1,
                 SgrStep(params, i, style, default_style, default_fg).style,
                 default_style, default_fg)

\* a sequence that leaves the style as it is
KeepStyle(seq, style, default_style, default_fg) == style

apply_sgr_sequence(seq, style, default_style, default_fg) ==
    IF seq = <<>> THEN default_style
    ELSE IF ParsedParams(SplitParams(seq, <<>>)) = <<>> THEN default_style
    ELSE SgrLoop(ParsedParams(SplitParams(seq, <<>>)), 0, style, default_style, default_fg)

Span(text, style) == [text |-> text, style |-> style]

\* the inner loop of parse_ansi_spans, at index i behind `ESC[`: the index
\* behind the sequence, and its parameters when it has ended with `m`
RECURSIVE ScanSequence(_, _, _)
ScanSequence(text, i, seq) ==
    IF i >= Len(text) THEN [next |-> i, sgr |-> None]
    ELSE IF At(text, i) = "m" THEN [next |-> i + 1, sgr |-> Some(seq)]
    ELSE IF IsAsciiDigit(At(text, i)) \/ At(text, i) = ";"
    THEN ScanSequence(text, i + 1, Append(seq, At(text, i)))
    ELSE [next |-> i + 1, sgr |-> None]

\* the outer loop of parse_ansi_spans from index i on, and the lines behind it
RECURSIVE ScanText(_, _, _, _, _, _, _)
ScanText(text, i, style, buffer, spans, default_style, default_fg) ==
    IF i >= Len(text)
    THEN LET all == IF buffer # <<>> THEN Append(spans, Span(buffer, style)) ELSE spans
         IN  IF all = <<>> THEN <<Span(<<>>, default_style)>> ELSE all
    ELSE IF At(text, i) = "ESC" /\ i + 1 < Len(text) /\ At(text, i + 1) = "["
    THEN ScanText(text, ScanSequence(text, i + 2, <<>>).next,
                  IF ScanSequence(text, i + 2, <<>>).sgr.some
                  THEN apply_sgr_sequence(ScanSequence(text, i + 2, <<>>).sgr.v, style,
                                          default_style, default_fg)
                  ELSE style,
                  <<>>,
                  IF buffer # <<>> THEN Append(spans, Span(buffer, style)) ELSE spans,
                  default_style, default_fg)
    ELSE ScanText(text, i + 1, style, Append(buffer, At(text, i)), spans,
                  default_style, default_fg)

parse_ansi_spans(text, default_style, default_fg) ==
    ScanText(text, 0, default_style, <<>>, <<>>, default_style, default_fg)

\* render_chat_line: the spans of the row, the prefix first ("bullet" is the
\* character U+2022)
render_chat_line(entry) ==
    CASE entry.kind = "Info" ->
            <<Span(<<"bullet", " ">>, DefaultStyle("Gray")),
              Span(entry.text, DefaultStyle("Gray"))>>
      [] entry.kind = "Command" ->
            <<Span(<<"$", " ">>, add_modifier(DefaultStyle("Cyan"), {"BOLD"})),
              Span(entry.text, add_modifier(DefaultStyle("Cyan"), {"BOLD"}))>>
      [] entry.kind = "Stdout" ->
            <<Span(<<" ", " ">>, DefaultStyle("DarkGray"))>>
                \o parse_ansi_spans(entry.text, DefaultStyle("White"), "White")
      [] entry.kind = "Stderr" ->
            <<Span(<<"!", " ">>, DefaultStyle("DarkGray"))>>
                \o parse_ansi_spans(entry.text, DefaultStyle("LightRed"), "LightRed")

\* the pieces of the lines a child writes: text, SGR sequences and other
\* escape sequences
Csi(body) == <<"ESC", "[">> \o body

AnsiPieces ==
    {<<"a">>, <<"m">>, <<"ESC", "c">>,
     Csi(<<"3", "1", "m">>), Csi(<<"0", "m">>), Csi(<<"m">>), Csi(<<"1", "m">>),
     Csi(<<"2", "2", ";", "3", "9", "m">>), Csi(<<"3", "8", ";", "5", ";", "1", "m">>),
     Csi(<<"?", "2", "5", "h">>), Csi(<<"2", "K">>)}

RECURSIVE AnsiLinesOf(_)
AnsiLinesOf(n) ==
    IF n = 0 THEN {<<>>}
    ELSE AnsiLinesOf(n - 1)
             \cup {line \o piece : line \in AnsiLinesOf(n - 1), piece \in AnsiPieces}

\* the line of the example: red text, a reset, plain text
RedPlain ==
    Csi(<<"3", "1", "m">>) \o <<"r", "e", "d", " ">> \o Csi(<<"0", "m">>)
        \o <<"p", "l", "a", "i", "n">>

AnsiLines == AnsiLinesOf(MaxPieces) \cup {RedPlain}

InitAnsi ==
    /\ app = new(Catalog, EmptyMap, DefaultRanking, EmptyMap)
    /\ visible = MaxVisible
    /\ InitProcesses

\* a line of the child comes to the session log (push_line of a chunk), the
\* first one of the session
OutputLine ==
    /\ pc = "await_key"
    /\ \A i \in 1..Len(app.chat) : app.chat[i].kind \notin Streams
    /\ \E kind \in Streams, text \in AnsiLines : app' = push_line(app, kind, text)
    /\ UNCHANGED <<pc, last, request, result, child, pipe, wrote, reader, queue, term, runs,
                   visible, script, logged>>

NextAnsi == OutputLine

SpecAnsi == InitAnsi /\ [][NextAnsi]_vars

-----------------------------------------------------------------------------
(* The ranking: a query of words is typed, and cleared again *)

RankQueries ==
    {<<"c", "a", "c", "h", "e", " ", "c", "l", "e", "a", "r">>,
     <<"c", "l", "e", "a", "r", " ", "c", "a", "c", "h", "e">>,
     <<"c", "a", "c", "h", "e">>,
     <<"c", "l", "e", "a", "r">>,
     <<"c", "a", "c", "h", "e", " ", "t", "a", "b", "l", "e">>,
     <<"t", "a", "b", "l", "e", " ", "c", "a", "c", "h", "e">>,
     <<"c", "o", "m", "p", "i", "l", "e", "d">>,
     <<"-">>,
     <<"c", "o", "m", "m", "a", "n", "d">>,
     <<"a", "r", "t", "i", "s", "a", "n">>}

\* Esc clears the query, and ends the session when there is none
RankKey == KeyEvent({Key("Esc")}, MAX_CHAT_LINES)

NextRank ==
    \/ RankKey
    \/ TypeQuery(RankQueries)

SpecRank == InitRank /\ [][NextRank]_vars

-----------------------------------------------------------------------------
(* Properties of the internal commands (specification SpecTemplate) *)

\* the name of the internal command of a query: the first word after the
\* slash, in lower case
NameOf(query) ==
    LET words == SplitWhitespace(Tail(TrimStart(query)), <<>>)
    IN  IF words = <<>> THEN <<>> ELSE ToAsciiLowercase(words[1])

\* a word of the query is --force or -f
Forced(query) ==
    \E word \in {SplitWhitespace(query, <<>>)[i] :
                     i \in 1..Len(SplitWhitespace(query, <<>>))} :
        word \in {<<"-", "-", "f", "o", "r", "c", "e">>, <<"-", "f">>}

\* the kind of the internal command that is selected, or "" when none is
SelectedKind ==
    IF app.selected < Len(app.filtered) /\ app.filtered[app.selected + 1].tag = "Internal"
    THEN InternalCommands[app.filtered[app.selected + 1].index + 1].kind
    ELSE ""

\* Enter in Search mode on a query of internal commands
EnterOnInternal ==
    /\ pc = "await_key"
    /\ app.mode.tag = "Search"
    /\ ~app.show_help
    /\ app.query # <<>>
    /\ Head(TrimStart(app.query)) = "/"
    /\ last'.key = Key("Enter")
    /\ (app' # app \/ pc' # pc)

\* the step requests the internal command and opens no prompt
Requests(command) ==
    /\ last'.action = [tag |-> "RunInternal", command |-> command]
    /\ pc' = "execute_internal"
    /\ app' = app

\* C21: Enter on the selected entry reload requests Reload at once; Enter on
\* the selected entry init without a force token in the query opens the
\* prompt of init and requests nothing; Enter on a query of init with a force
\* token requests Init with force at once and opens no prompt; and Init is
\* only requested by such an Enter, with force, or from the prompt of init,
\* with force for the key y and without it for the key n or Enter on a blank
\* input
C21_InternalEnter ==
    [][/\ (EnterOnInternal /\ SelectedKind = "Reload") => Requests([tag |-> "Reload"])
       /\ (EnterOnInternal /\ SelectedKind = "Init" /\ ~Forced(app.query)) =>
              /\ app'.mode.tag = "InternalPrompt"
              /\ At(InternalCommands, app'.mode.command_index).kind = "Init"
              /\ app'.mode.input = <<>>
              /\ last'.action = UiNone
              /\ pc' = "await_key"
       /\ (EnterOnInternal /\ Forced(app.query)
              /\ (NameOf(app.query) = <<"i", "n", "i", "t">> \/ SelectedKind = "Init")) =>
              Requests([tag |-> "Init", force |-> TRUE])
       /\ (pc = "await_key" /\ pc' = "execute_internal" /\ last'.action.command.tag = "Init") =>
              \/ /\ app.mode.tag = "Search"
                 /\ Forced(app.query)
                 /\ last'.action.command.force
              \/ /\ app.mode.tag = "InternalPrompt"
                 /\ app'.mode = SearchMode
                 /\ \/ last'.key = CharKey("y") /\ last'.action.command.force
                    \/ last'.key = CharKey("n") /\ ~last'.action.command.force
                    \/ /\ last'.key = Key("Enter")
                       /\ \A i \in 1..Len(app.mode.input) : app.mode.input[i] = " "
                       /\ ~last'.action.command.force]_vars

\* Enter on `/Init -f` has requested Init with force
C21_Witness ==
    /\ pc = "execute_internal"
    /\ last = [key |-> Key("Enter"), action |-> UiRunInternal(InternalInit(TRUE))]
    /\ app.query = <<"/", "I", "n", "i", "t", " ", "-", "f">>

\* the prompt of init is open
C21_Prompted ==
    /\ pc = "await_key"
    /\ last = [key |-> Key("Enter"), action |-> UiNone]
    /\ app.mode = InternalPromptMode(0, <<>>)

\* the step logs that the internal command is unknown, requests nothing and
\* stays in Search mode
UnknownLogged ==
    /\ Appended = <<[kind |-> "Info",
                     text |-> <<"Unknown internal command. Available: /reload, /init">>]>>
    /\ last'.action = UiNone
    /\ pc' = "await_key"
    /\ app'.mode = SearchMode

\* C22 as stated: Enter on a query whose name is neither reload nor init logs
\* that the command is unknown, requests nothing and stays in Search mode
C22_UnknownName ==
    [][(EnterOnInternal
          /\ NameOf(app.query) \notin {<<>>, <<"r", "e", "l", "o", "a", "d">>, <<"i", "n", "i", "t">>})
       => UnknownLogged]_vars

\* C22: Enter on a query of internal commands that matches none of them logs
\* that the command is unknown, requests nothing and stays in Search mode,
\* unless its name is reload, or init with a force token; Enter on a name that
\* is neither reload nor init but matches an internal command acts on the
\* selected one and logs nothing
C22_UnknownInternal ==
    [][/\ (EnterOnInternal
             /\ app.filtered = <<>>
             /\ NameOf(app.query) # <<"r", "e", "l", "o", "a", "d">>
             /\ ~(NameOf(app.query) = <<"i", "n", "i", "t">> /\ Forced(app.query)))
          => UnknownLogged
       /\ (EnterOnInternal
             /\ app.filtered # <<>>
             /\ NameOf(app.query) \notin {<<"r", "e", "l", "o", "a", "d">>, <<"i", "n", "i", "t">>})
          => /\ Appended = <<>>
             /\ \/ pc' = "execute_internal" /\ SelectedKind = "Reload"
                \/ app'.mode.tag = "InternalPrompt" /\ SelectedKind = "Init"]_vars

\* Enter on `/x` has logged that the command is unknown
C22_Witness ==
    /\ pc = "await_key"
    /\ last = [key |-> Key("Enter"), action |-> UiNone]
    /\ app.query = <<"/", "x">>
    /\ app.mode = SearchMode
    /\ app.chat[Len(app.chat)].text = <<"Unknown internal command. Available: /reload, /init">>

\* the step in which execute_internal_command ends with a catalog loaded
ReloadDone ==
    /\ pc = "execute_internal"
    /\ pc' = "await_key"
    /\ app'.chat[Len(app'.chat)].kind = "Info"

\* the catalog, the alias map and the ranking of a are the ones of the payload,
\* the inverse alias map and the set of the providers without alias are the
\* ones of this catalog and this alias map, and the result is the one of the
\* empty query: every command of this catalog, in its order (no command has
\* been used)
OfGeneration(a, payload) ==
    /\ a.commands = payload.commands
    /\ a.provider_aliases = payload.provider_aliases
    /\ a.ranking = payload.ranking
    /\ DOMAIN a.provider_alias_by_name =
           {payload.provider_aliases[alias] : alias \in DOMAIN payload.provider_aliases}
    /\ \A provider \in DOMAIN a.provider_alias_by_name :
           payload.provider_aliases[a.provider_alias_by_name[provider]] = provider
    /\ a.provider_names_without_alias =
           {Spelled(payload.commands[i].source) : i \in 1..Len(payload.commands)}
               \ {payload.provider_aliases[alias] : alias \in DOMAIN payload.provider_aliases}
    /\ a.filtered = [k \in 1..Len(payload.commands) |-> [tag |-> "Command", index |-> k - 1]]

\* C23 as stated: a reload that succeeds leaves the app with one of the loaded
\* generations as a whole, and with a selection that is an index of the new
\* result
C23_ValidSelection ==
    [][ReloadDone =>
          /\ \E payload \in TemplatePayloads : OfGeneration(app', payload)
          /\ app'.selected \in 0..(Len(app'.filtered) - 1)]_vars

\* C23: a reload that succeeds leaves the app with one of the loaded
\* generations as a whole (catalog, alias map, inverse alias map, providers
\* without alias, ranking, result), and with the selection 0: the first entry
\* of the new result, or no entry when the new result is empty
C23_Reload ==
    [][ReloadDone =>
          /\ \E payload \in TemplatePayloads : OfGeneration(app', payload)
          /\ app'.selected = 0]_vars

\* a reload has loaded the catalog of one command, with an alias and without
\* the ranking by usage
C23_Witness ==
    /\ pc = "await_key"
    /\ app.commands = <<CmdLink>>
    /\ app.provider_alias_by_name # EmptyMap
    /\ ~app.ranking.usage_enabled
    /\ app.chat[Len(app.chat)].text = <<"Reloaded ", "1", " commands">>

\* the ways in which the internal command that has been requested may fail
Failures ==
    {r \in run_internal_task(last.action.command, TemplatePayloads) : r.tag = "Error"}
        \cup {Disconnected}

\* C24: when the internal command that has been requested fails, one line of
\* the kind of errors is appended to the session log, the catalog, the alias
\* map, what is derived from them and the ranking stay, nothing is loading
\* any more and the app is in Search mode
C24_InternalFailure ==
    pc = "execute_internal" =>
        \A failure \in Failures :
            LET a == execute_internal_command(app, failure)
            IN  /\ Len(a.chat) = Len(app.chat) + 1
                /\ SubSeq(a.chat, 1, Len(app.chat)) = app.chat
                /\ a.chat[Len(a.chat)].kind = "Stderr"
                /\ a.commands = app.commands
                /\ a.provider_aliases = app.provider_aliases
                /\ a.provider_alias_by_name = app.provider_alias_by_name
                /\ a.provider_names_without_alias = app.provider_names_without_alias
                /\ a.ranking = app.ranking
                /\ ~a.is_loading
                /\ a.mode = SearchMode

\* /init has failed: the loop awaits the next key in Search mode
C24_Witness ==
    /\ pc = "await_key"
    /\ last.action = UiRunInternal(InternalInit(FALSE))
    /\ app.chat[Len(app.chat)] = [kind |-> "Stderr", text |-> <<"init failed">>]
    /\ app.mode = SearchMode
    /\ ~app.is_loading

-----------------------------------------------------------------------------
(* Properties of the runs that do not return (specification SpecInherit) *)

\* C25: Alt-Enter in Search mode opens a prompt that holds, or requests a run
\* that carries, the decision not to return to the UI; every key of a prompt
\* leaves the decision of the prompt, and the run request of a prompt carries
\* it; execute_command on such a request restores the terminal, for the first
\* time, in the step that starts the child and records no usage then; the
\* usage of the command is recorded, once, when the child has ended, and with
\* this the loop has ended; from the start of the child on the terminal is
\* restored once and the UI is not entered again
C25_NoReturn ==
    [][/\ (pc = "await_key" /\ app.mode.tag = "Search" /\ last'.key = AltKey("Enter")
             /\ (app' # app \/ pc' # pc)) =>
              \/ app'.mode.tag = "Prompt" /\ ~app'.mode.return_to_tui /\ pc' = "await_key"
              \/ pc' = "execute" /\ ~request'.return_to_tui
              \/ app'.mode.tag = "Search" /\ pc' = "await_key" /\ Len(app'.chat) > Len(app.chat)
       /\ (app.mode.tag = "Prompt" /\ app'.mode.tag = "Prompt") =>
              app'.mode.return_to_tui = app.mode.return_to_tui
       /\ (app.mode.tag = "Prompt" /\ pc = "await_key" /\ pc' = "execute") =>
              request'.return_to_tui = app.mode.return_to_tui
       /\ (pc = "execute" /\ ~request.return_to_tui /\ pc' # pc) =>
              /\ term' = [tui |-> FALSE, restored |-> 1]
              /\ term.tui
              /\ pc' = "inherit" =>
                     /\ child.state # "running"
                     /\ child'.state = "running"
                     /\ app'.usage_counts = app.usage_counts
       /\ (pc = "inherit" /\ pc' # pc) =>
              /\ child.state = "exited"
              /\ Usage(app', request.usage_key) = Usage(app, request.usage_key) + 1
              /\ pc' = "exited"
       /\ (pc \in {"inherit", "exited"}) =>
              /\ term' = term
              /\ term = [tui |-> FALSE, restored |-> 1]
              /\ pc' \in {"inherit", "exited"}]_vars

\* deploy, requested with Alt-Enter and asked for its parameter, has run
\* without the UI and the loop has ended
C25_Witness ==
    /\ pc = "exited"
    /\ request.display_name = CmdDeploy.name
    /\ ~request.return_to_tui
    /\ child.state = "exited"
    /\ Usage(app, request.usage_key) = 1
    /\ term = [tui |-> FALSE, restored |-> 1]

-----------------------------------------------------------------------------
(* Properties of the ranking (specification SpecRank) *)

\* the user looks at the result of a query of words
Searching ==
    /\ pc = "await_key"
    /\ app.mode.tag = "Search"
    /\ tokenize_for_match(app.query) # <<>>

\* a token of the name of the command is the word, or contains it
InName(command, word) ==
    \E i \in 1..Len(tokenize_for_match(command.name)) :
        Contains(tokenize_for_match(command.name)[i], word)

\* the name tokens of the command match every word of the query
MatchesAll(command, query) ==
    \A t \in 1..Len(tokenize_for_match(query)) : InName(command, tokenize_for_match(query)[t])

\* the places of the result that show the command
PlacesOf(command) ==
    {k \in 1..Len(app.filtered) :
        /\ app.filtered[k].tag = "Command"
        /\ At(app.commands, app.filtered[k].index) = command}

Listed(command) == PlacesOf(command) # {}

Before(a, b) == \E i \in PlacesOf(a) : \A j \in PlacesOf(b) : i < j

Candidates == {At(app.commands, i) : i \in 0..(Len(app.commands) - 1)}

Uses(command) == Usage(app, command_usage_key(command))

MatchScore(command) ==
    IF app.query = <<>> THEN Some(0)
    ELSE LET matched == score_command_match(app.query, tokenize_for_match(app.query), command)
         IN  IF matched.some THEN Some(matched.v.total) ELSE None

\* the two candidates are listed with the same match score, a run more often
MoreUsedOfEqualScore(a, b) ==
    /\ MatchScore(a).some
    /\ MatchScore(a) = MatchScore(b)
    /\ Uses(a) > Uses(b)

\* the result is the one of a session without usage counts
UsageIgnored == app.filtered = refresh_filtered([app EXCEPT !.usage_counts = EmptyMap]).filtered

AwaitingSearch == pc = "await_key" /\ app.mode.tag = "Search"

-----------------------------------------------------------------------------
(* Properties of the ANSI interpreter (specification SpecAnsi) *)

\* the session log ends with a line of output
HasOutput == app.chat # <<>> /\ app.chat[Len(app.chat)].kind \in Streams

OutputText == app.chat[Len(app.chat)].text

\* the style that render_chat_line starts the line with
StyleOfStream ==
    IF app.chat[Len(app.chat)].kind = "Stdout" THEN DefaultStyle("White")
    ELSE DefaultStyle("LightRed")

\* the segments of the line in the frame, behind the prefix of the row
Segments == Tail(render_chat_line(app.chat[Len(app.chat)]))

\* an SGR sequence stands at the positions i..j of the line: ESC [ params m
IsSgr(text, i, j) ==
    /\ j >= i + 2 /\ j <= Len(text)
    /\ text[i] = "ESC" /\ text[i + 1] = "[" /\ text[j] = "m"
    /\ \A k \in (i + 2)..(j - 1) : IsAsciiDigit(text[k]) \/ text[k] = ";"

\* every escape character of the line begins an SGR sequence
OnlySgr(text) ==
    \A i \in 1..Len(text) : text[i] = "ESC" => \E j \in 1..Len(text) : IsSgr(text, i, j)

\* the position is one of an SGR sequence
InSgr(text, p) == \E i \in 1..p, j \in p..Len(text) : IsSgr(text, i, j)

\* the positions at which a maximal run of text begins
RunStarts(text) ==
    {p \in 1..Len(text) : ~InSgr(text, p) /\ (p = 1 \/ InSgr(text, p - 1))}

\* the run of text that begins at p
RunAt(text, p) ==
    SubSeq(text, p,
           CHOOSE q \in p..Len(text) :
               /\ \A r \in p..q : ~InSgr(text, r)
               /\ q = Len(text) \/ InSgr(text, q + 1))

\* the k-th position of the set
Nth(positions, k) == CHOOSE p \in positions : Cardinality({q \in positions : q < p}) = k - 1

\* the style after the SGR sequences of the line before position p, applied
\* one after the other from position i on
RECURSIVE StyleBefore(_, _, _, _, _)
StyleBefore(text, i, p, style, default_style) ==
    IF i >= p THEN style
    ELSE IF \E j \in i..(p - 1) : IsSgr(text, i, j)
    THEN StyleBefore(text, (CHOOSE j \in i..(p - 1) : IsSgr(text, i, j)) + 1, p,
                     apply_sgr_sequence(
                         SubSeq(text, i + 2, (CHOOSE j \in i..(p - 1) : IsSgr(text, i, j)) - 1),
                         style, default_style, default_style.fg.v),
                     default_style)
    ELSE StyleBefore(text, i + 1, p, style, default_style)

\* the run that begins at p stands behind a reset: ESC [ 0 m
AfterReset(text, p) == p > 4 /\ SubSeq(text, p - 4, p - 1) = Csi(<<"0", "m">>)

\* the run that begins at p stands behind text and the one sequence ESC [ 1 m
AfterBold(text, p) ==
    p > 5 /\ SubSeq(text, p - 4, p - 1) = Csi(<<"1", "m">>) /\ ~InSgr(text, p - 5)

\* the segments are the runs of the text, in their order, each in the style
\* of its place
SegmentsAreRuns(text, segments, default_style) ==
    IF RunStarts(text) = {} THEN segments = <<Span(<<>>, default_style)>>
    ELSE /\ Len(segments) = Cardinality(RunStarts(text))
         /\ \A k \in 1..Len(segments) :
               /\ segments[k].text = RunAt(text, Nth(RunStarts(text), k))
               /\ segments[k].style =
                      StyleBefore(text, 1, Nth(RunStarts(text), k), default_style, default_style)
               /\ AfterReset(text, Nth(RunStarts(text), k)) =>
                      segments[k].style = default_style
               /\ (k > 1 /\ AfterBold(text, Nth(RunStarts(text), k))) =>
                      segments[k].style = add_modifier(segments[k - 1].style, {"BOLD"})

\* the texts of the segments, one behind the other
RECURSIVE TextOf(_)
TextOf(segments) ==
    IF segments = <<>> THEN <<>> ELSE Head(segments).text \o TextOf(Tail(segments))

\* the line without the positions of its SGR sequences
RECURSIVE WithoutSgr(_, _)
WithoutSgr(text, p) ==
    IF p > Len(text) THEN <<>>
    ELSE (IF InSgr(text, p) THEN <<>> ELSE <<text[p]>>) \o WithoutSgr(text, p + 1)

RECURSIVE BehindParameters(_, _)
BehindParameters(text, i) ==
    IF i <= Len(text) /\ (IsAsciiDigit(text[i]) \/ text[i] \in {";", "?"})
    THEN BehindParameters(text, i + 1)
    ELSE i

\* the line without its escape sequences: ESC [ with its parameter bytes and
\* its final character (an SGR sequence is one of these), or ESC with the
\* character that follows it
RECURSIVE Unescaped(_, _)
Unescaped(text, i) ==
    IF i > Len(text) THEN <<>>
    ELSE IF text[i] # "ESC" THEN <<text[i]>> \o Unescaped(text, i + 1)
    ELSE IF i < Len(text) /\ text[i + 1] = "["
    THEN Unescaped(text, BehindParameters(text, i + 2) + 1)
    ELSE Unescaped(text, i + 2)

\* C29: no character of an escape sequence, SGR or not, comes into a segment:
\* no segment holds the escape character, the texts of the segments together
\* are the line without its escape sequences, and there is a segment for
\* every line
C29_NonSgrDropped ==
    HasOutput =>
        /\ \A k \in 1..Len(Segments) :
               \A c \in 1..Len(Segments[k].text) : Segments[k].text[c] # "ESC"
        /\ TextOf(Segments) = Unescaped(OutputText, 1)
        /\ Len(Segments) >= 1

-----------------------------------------------------------------------------
(* Properties of the end of a streamed run (specification Spec) *)

\* C30: the step with which run_shell_command_streaming returns is taken with
\* both reader threads at their end and a child that runs no more, so that
\* no reader holds or forwards a line of the run that is reported complete
C30_CompleteAfterReaders ==
    [][StreamReturns =>
           /\ \A s \in Streams : reader[s].at = "done"
           /\ child.state # "running"
      ]_vars

-----------------------------------------------------------------------------
(* A streamed run whose child leaves a background process: the process has  *)
(* inherited the pipes, holds them open after the child has ended and keeps *)
(* writing the same line to the standard output                             *)

InitDrain ==
    /\ app = new(Catalog, EmptyMap, DefaultRanking, EmptyMap)
    /\ visible = MaxVisible
    /\ InitProcesses

\* the background process writes its next line when the line before has been
\* taken from the queue, as long as a reader is there
GrandchildWrite ==
    /\ child.piped
    /\ child.state \in {"exited", "killed"}
    /\ reader["Stdout"].at = "read"
    /\ pipe["Stdout"] = <<>>
    /\ queue.chunks = <<>>
    /\ pipe' = [pipe EXCEPT !["Stdout"] = <<(<<"tick">>)>>]
    /\ UNCHANGED <<app, pc, last, request, result, child, wrote, reader, queue, term, runs,
                   visible, script, logged>>

\* buffered.read_line on a pipe that is held open: the next line, never the
\* end of the stream
ReaderReadHeld ==
    /\ \E s \in Streams :
          /\ reader[s].at = "read"
          /\ pipe[s] # <<>>
          /\ reader' = [reader EXCEPT ![s] = [at |-> "send", line |-> Head(pipe[s])]]
          /\ pipe' = [pipe EXCEPT ![s] = Tail(pipe[s])]
    /\ UNCHANGED <<app, pc, last, request, result, child, wrote, queue, term, runs,
                   visible, script, logged>>

\* the user of this model runs one command
StartKey == runs = 0 /\ KeyEvent({Key("Enter"), Key("Down")}, MaxLog)

NextDrain ==
    \/ StartKey
    \/ ExecuteStreamed
    \/ ChildExit
    \/ GrandchildWrite
    \/ ReaderReadHeld
    \/ ReaderSend
    \/ PollInterrupt
    \/ TryRecv
    \/ RecvTimeout
    \/ Drain

\* the control thread, the reader threads and the processes all go on
SpecDrain ==
    /\ InitDrain
    /\ [][NextDrain]_vars
    /\ WF_vars(ExecuteStreamed)
    /\ WF_vars(ChildExit)
    /\ WF_vars(GrandchildWrite)
    /\ WF_vars(ReaderReadHeld)
    /\ WF_vars(ReaderSend)
    /\ WF_vars(PollInterrupt)
    /\ WF_vars(TryRecv)
    /\ WF_vars(RecvTimeout)
    /\ WF_vars(Drain)

-----------------------------------------------------------------------------
(* Properties of the drain (specification SpecDrain) *)

\* C31: once the child has exited or has been killed and the control thread
\* drains the queue, the run returns: the control thread comes to wait for a
\* key again, in the mode Search and with loading cleared, also with a
\* background process that keeps the pipes open and goes on writing
C31_DrainReturns ==
    (pc \in {"drain_interrupted", "drain_exited"})
        ~> (pc = "await_key" /\ app.mode = SearchMode /\ ~app.is_loading)

-----------------------------------------------------------------------------
(* execute_internal_command step by step: the worker thread, its one-shot   *)
(* channel (the queue), and a user who presses Esc while the hint bar says  *)
(* `Esc to interrupt`; script holds the key pressed and not yet read        *)

InternalQueries ==
    {<<"/", "r", "e", "l", "o", "a", "d">>, <<"/", "i", "n", "i", "t">>,
     <<"/", "i", "n", "i", "t", " ", "-", "f">>}

InternalKeysNow ==
    IF app.mode.tag = "Search"
    THEN IF app.query # <<>> THEN {Key("Enter")} ELSE {}
    ELSE IF app.mode.tag = "InternalPrompt" THEN {Key("Enter"), CharKey("y"), CharKey("n")}
    ELSE {}

InternalKey == KeyEvent(InternalKeysNow, MaxPromptLog)

\* the lines of execute_internal_command up to the start of the worker
StartInternal ==
    /\ pc = "execute_internal"
    /\ app' = start_loading(refresh_filtered(
                  [app EXCEPT !.mode = SearchMode, !.query = <<>>, !.query_cursor = 0]))
    /\ queue' = [chunks |-> <<>>, rx |-> TRUE]
    /\ pc' = "internal_wait"
    /\ UNCHANGED <<last, request, result, child, pipe, wrote, reader, term, runs,
                   visible, script, logged>>

\* the user presses Esc while the command is loading: the key waits in the
\* terminal to be read
PressEsc ==
    /\ app.is_loading
    /\ ~script.active
    /\ script' = [active |-> TRUE, word |-> <<"Esc">>, typed |-> 0]
    /\ UNCHANGED <<app, pc, last, request, result, child, pipe, wrote, reader, queue,
                   term, runs, visible, logged>>

\* the worker: run_internal_task, then tx.send(result), once
WorkerSend(payloads) ==
    /\ pc = "internal_wait"
    /\ queue.chunks = <<>>
    /\ \E task_result \in run_internal_task(last.action.command, payloads) :
          queue' = [queue EXCEPT !.chunks = <<task_result>>]
    /\ UNCHANGED <<app, pc, last, request, result, child, pipe, wrote, reader, term, runs,
                   visible, script, logged>>

\* rx.recv_timeout(25 ms) gives the result, or finds the worker gone without
\* one; a timeout in between only moves the spinner and draws
InternalRecv ==
    /\ pc = "internal_wait"
    /\ app' = execute_internal_command(
                  app, IF queue.chunks # <<>> THEN Head(queue.chunks) ELSE Disconnected)
    /\ queue' = NoChannel
    /\ pc' = "await_key"
    /\ UNCHANGED <<last, request, result, child, pipe, wrote, reader, term, runs,
                   visible, script, logged>>

\* run_loop reads the key that has waited in the terminal
ReadPending ==
    /\ pc = "await_key"
    /\ script.active
    /\ HandleKey(Key(script.word[1]), <<>>)
    /\ script' = NoScript
    /\ UNCHANGED <<result, child, pipe, wrote, reader, queue, runs, visible, logged>>

NextInternal ==
    \/ InternalKey
    \/ TypeQuery(InternalQueries)
    \/ StartInternal
    \/ PressEsc
    \/ WorkerSend(TemplatePayloads)
    \/ InternalRecv
    \/ ReadPending

SpecInternal == InitTemplate /\ [][NextInternal]_vars

-----------------------------------------------------------------------------
(* Properties of the worker of the internal commands (specification        *)
(* SpecInternal)                                                            *)

\* C32: when the control thread takes the result of the worker, no key that
\* was pressed during the work is still unread, the worker has sent no more
\* than one result, and loading is cleared
C32_KeysPolled ==
    [][(pc = "internal_wait" /\ pc' = "await_key") =>
           /\ ~script.active
           /\ Len(queue.chunks) <= 1
           /\ ~app'.is_loading
      ]_vars

\* the usage boost of the candidate, from the settings and the counter
Boost(command) ==
    IF ~app.ranking.usage_enabled \/ app.ranking.usage_weight < 0 THEN 0
    ELSE Uses(command) * app.ranking.usage_weight

\* the fuzzy score of the candidate for the query
Fuzzy(command) ==
    UnwrapOrDefault(fuzzy_match(
        ToLowercase(command.name)
            \o (IF command.description.some
                THEN <<" ">> \o ToLowercase(command.description.v) ELSE <<>>),
        ToLowercase(app.query)))

\* candidate a may stand before candidate b in the result of the query
InRankOrder(a, b) ==
    IF app.query = <<>>
    THEN \/ Boost(a) > Boost(b)
         \/ Boost(a) = Boost(b) /\ ~StrLess(ToLowercase(b.name), ToLowercase(a.name))
    ELSE \/ MatchScore(a).v + Boost(a) > MatchScore(b).v + Boost(b)
         \/ /\ MatchScore(a).v + Boost(a) = MatchScore(b).v + Boost(b)
            /\ \/ Fuzzy(a) > Fuzzy(b)
               \/ /\ Fuzzy(a) = Fuzzy(b)
                  /\ ~StrLess(ToLowercase(b.name), ToLowercase(a.name))

CandidateAt(k) == At(app.commands, app.filtered[k].index)

Covered(command, query) ==
    \E w \in 1..Len(tokenize_for_match(query)) :
        \/ InName(command, tokenize_for_match(query)[w])
        \/ /\ command.description.some
           /\ \E i \in 1..Len(tokenize_for_match(command.description.v)) :
                  Contains(tokenize_for_match(command.description.v)[i],
                           tokenize_for_match(query)[w])

\* C34, as the spec words it: with a query, a candidate is left out of the
\* result exactly when its fuzzy score is zero and no term of the query is
\* covered by its name or description, also when the query has no terms
C34_ExcludedExactly ==
    (AwaitingSearch /\ app.query # <<>>) =>
        \A c \in Candidates : ~Listed(c) <=> (Fuzzy(c) = 0 /\ ~Covered(c, app.query))

\* C34, amended: the same for a query with terms; a query without terms
\* leaves no candidate out
C34_Excluded ==
    (AwaitingSearch /\ app.query # <<>>) =>
        \A c \in Candidates :
            IF tokenize_for_match(app.query) = <<>> THEN Listed(c)
            ELSE ~Listed(c) <=> (Fuzzy(c) = 0 /\ ~Covered(c, app.query))

\* the query "compiled" has left out the two candidates that have no such
\* word, and lists clear-compiled
C34_Witness ==
    /\ AwaitingSearch
    /\ app.query = <<"c", "o", "m", "p", "i", "l", "e", "d">>
    /\ Listed(CmdClearCompiled)
    /\ ~Listed(CmdCacheClear)
    /\ ~Listed(CmdCacheTable)
    /\ Fuzzy(CmdCacheClear) = 0
    /\ ~Covered(CmdCacheClear, app.query)

-----------------------------------------------------------------------------
(* The name hits of score_command_match: catalogs of two commands whose      *)
(* names are two words in either order (specification SpecScore)             *)

ScoreWords == {<<"t", "e", "s", "t">>, <<"t", "e", "s", "t", "s">>, <<"u", "n", "i", "t">>}

ScoreNames == {pair[1] \o <<" ">> \o pair[2] : pair \in {p \in ScoreWords \X ScoreWords : p[1] # p[2]}}

ScoreCommand(name) ==
    [name |-> name, template |-> name, params |-> <<>>, source |-> "justfile",
     working_dir |-> None, description |-> None]

ScoreCatalogs ==
    {<<ScoreCommand(pair[1]), ScoreCommand(pair[2])>> :
        pair \in {p \in ScoreNames \X ScoreNames : p[1] # p[2]}}

ScoreQueries == ScoreWords \cup {<<"t", "e", "s", "t", " ", "u", "n", "i", "t">>}

InitScore ==
    /\ \E commands \in ScoreCatalogs : app = new(commands, EmptyMap, DefaultRanking, EmptyMap)
    /\ visible = MaxVisible
    /\ InitProcesses

NextScore ==
    \/ RankKey
    \/ TypeQuery(ScoreQueries)

SpecScore == InitScore /\ [][NextScore]_vars

\* the best match of the term among the tokens of the name: 2 when a token
\* is the term, 1 when a token holds the term, 0 otherwise
BestNameHit(command, word) ==
    IF \E i \in 1..Len(tokenize_for_match(command.name)) :
           tokenize_for_match(command.name)[i] = word
    THEN 2
    ELSE IF InName(command, word) THEN 1
    ELSE 0

\* C35: for every term of the query the scorer counts the best match among
\* all tokens of the name of the candidate, wherever the token stands
C35_BestNameMatch ==
    AwaitingSearch =>
        \A c \in Candidates :
            \A w \in 1..Len(tokenize_for_match(app.query)) :
                FirstNameHit(tokenize_for_match(c.name), tokenize_for_match(app.query)[w])
                    = BestNameHit(c, tokenize_for_match(app.query)[w])

-----------------------------------------------------------------------------
(* The selection: the query is typed and edited, the selection moved by one  *)
(* and by pages, and the catalog reloaded (specification SpecSelect)         *)

\* queries with three, one and no result, and the reload
SelectQueries ==
    {<<"a", "r", "t">>, <<"t", "a", "b">>, <<"q">>, <<"/", "r", "e", "l", "o", "a", "d">>}

\* the catalogs that a reload may load: three, two and no commands
SelectPayloads ==
    {[commands |-> RankCatalog, provider_aliases |-> EmptyMap, ranking |-> DefaultRanking],
     [commands |-> <<CmdCacheTable, CmdClearCompiled>>, provider_aliases |-> EmptyMap,
      ranking |-> DefaultRanking],
     [commands |-> <<>>, provider_aliases |-> EmptyMap, ranking |-> DefaultRanking]}

MoveKeys == {Key("Up"), Key("Down"), Key("PageUp"), Key("PageDown")}

SelectKeysNow ==
    IF app.mode.tag # "Search" THEN {}
    ELSE MoveKeys \cup {Key("Backspace"), Key("Esc")}
             \cup (IF is_internal_query(app) THEN {Key("Enter")} ELSE {})

SelectKey == KeyEvent(SelectKeysNow, MaxPromptLog)

InitSelect ==
    /\ app = new(RankCatalog, EmptyMap, DefaultRanking, EmptyMap)
    /\ visible = MaxVisible
    /\ InitProcesses

NextSelect ==
    \/ SelectKey
    \/ TypeQuery(SelectQueries)
    \/ ExecuteInternal(SelectPayloads)

SpecSelect == InitSelect /\ [][NextSelect]_vars

\* the steps of the keys of the selection
StepOf(key) ==
    CASE key = Key("Up") -> -1
      [] key = Key("Down") -> 1
      [] key = Key("PageUp") -> -10
      [] key = Key("PageDown") -> 10

\* the index k is the index `from` moved by `step` around a result of len entries
Wrapped(k, from, step, len) ==
    /\ k \in 0..(len - 1)
    /\ \E turns \in -10..10 : k = from + step + turns * len

\* C36: the selection is 0 when the result is empty and an index of the
\* result otherwise, and a key that moves the selection in the commands pane
\* moves it by its step around the result
C36_SelectionValid ==
    /\ IF app.filtered = <<>> THEN app.selected = 0
       ELSE app.selected \in 0..(Len(app.filtered) - 1)
    /\ (AwaitingSearch /\ app.active_pane = "Commands" /\ ~app.show_help) =>
           \A key \in MoveKeys :
               IF app.filtered = <<>> THEN on_key(app, key, <<>>).app.selected = 0
               ELSE Wrapped(on_key(app, key, <<>>).app.selected, app.selected,
                            StepOf(key), Len(app.filtered))

\* a catalog of two commands has been loaded, and Up has moved the selection
\* from the first entry around to the last one
C36_Witness ==
    /\ AwaitingSearch
    /\ Len(app.commands) = 2
    /\ Len(app.filtered) = 2
    /\ last.key = Key("Up")
    /\ app.selected = 1

-----------------------------------------------------------------------------
(* Properties of the open prompt (specification SpecTemplate) *)

\* the prompt of the mode is one of a command of the catalog: its pending
\* list is not empty and has indices of parameters of this command that need
\* an input, in increasing order, and its current index is one of this list
PromptWellFormed(a) ==
    /\ a.mode.command_index \in 0..(Len(a.commands) - 1)
    /\ a.mode.pending_params # <<>>
    /\ \A k \in 1..Len(a.mode.pending_params) :
          /\ a.mode.pending_params[k]
                 \in 0..(Len(At(a.commands, a.mode.command_index).params) - 1)
          /\ requires_input(At(At(a.commands, a.mode.command_index).params,
                               a.mode.pending_params[k]))
          /\ k > 1 => a.mode.pending_params[k - 1] < a.mode.pending_params[k]
    /\ a.mode.current_param \in 0..(Len(a.mode.pending_params) - 1)

\* C37: whenever the mode is the parameter prompt the prompt is well formed
\* for the catalog of this state, and no step replaces the catalog while the
\* mode is the parameter prompt
C37_PromptWellFormed ==
    /\ [](app.mode.tag = "Prompt" => PromptWellFormed(app))
    /\ [][app.mode.tag = "Prompt" => app'.commands = app.commands]_vars

\* the prompt of the command link, the second of the catalog, is at the
\* second of its pending parameters
C37_Witness ==
    /\ app.mode.tag = "Prompt"
    /\ At(app.commands, app.mode.command_index) = CmdLink
    /\ Len(app.mode.pending_params) > 1
    /\ app.mode.current_param = 1

-----------------------------------------------------------------------------
(* Properties of the result after a run (specification Spec) *)

\* C38: whenever the app awaits a key in Search mode after a run, the
\* result is in the order of the ranking by the usage counters of this state:
\* no entry has a smaller usage boost than its successor
C38_ResultReflectsUsage ==
    (AwaitingSearch /\ runs > 0) =>
        \A k \in 1..(Len(app.filtered) - 1) :
            Boost(CandidateAt(k)) >= Boost(CandidateAt(k + 1))

-----------------------------------------------------------------------------
(* Properties of render_template (specification SpecTemplate) *)

\* C39: the line that render_template makes of the template of the command
\* of the prompt and of the values collected so far is the same in every
\* order in which the map of the values may hand them out
C39_RenderDeterministic ==
    app.mode.tag = "Prompt" =>
        \A first, second \in Orders(DOMAIN app.mode.values) :
            render_template(At(app.commands, app.mode.command_index).template,
                            app.mode.values, first)
                = render_template(At(app.commands, app.mode.command_index).template,
                                  app.mode.values, second)

-----------------------------------------------------------------------------
(* Properties of the keys of a character in the prompt of a flag and in the  *)
(* prompt of /init (specification SpecTemplate)                              *)

PromptChars == {"y", "N", "1", "0", "o", "x", " "}

\* the prompt of a flag, or the one of /init, awaits a key
FlagPromptOpen ==
    /\ pc = "await_key"
    /\ \/ app.mode.tag = "InternalPrompt"
       \/ app.mode.tag = "Prompt" /\ CurrentParam(app).kind = "Flag"

\* the key has resolved the prompt: the mode has been left, or the prompt is
\* at its next parameter
ResolvedBy(r) ==
    \/ r.app.mode.tag # app.mode.tag
    \/ /\ app.mode.tag = "Prompt"
       /\ r.app.mode.current_param = app.mode.current_param + 1

\* C40: in the prompt of a flag and in the one of /init the key of a
\* character that is a yes/no word by itself (y, n, 1, 0, in any case)
\* resolves the prompt, and the key of every other character, the space among
\* them, is appended to the input and leaves the prompt as it is
C40_KeystrokeResolves ==
    FlagPromptOpen =>
        \A c \in PromptChars, order \in Orders(ParamNames(CommandAtHand)) :
            IF ToAsciiLowercase(<<c>>) \in YesWords \cup NoWords
            THEN ResolvedBy(on_key(app, CharKey(c), order))
            ELSE /\ on_key(app, CharKey(c), order).app
                        = [app EXCEPT !.mode.input = Append(app.mode.input, c)]
                 /\ on_key(app, CharKey(c), order).action = UiNone

====
